---- MODULE Spec2Model ----
(***************************************************************************)
(* Model of the turn / stream orchestration hook useGeminiStream           *)
(* (packages/cli/src/ui/hooks/useGeminiStream.ts).                          *)
(*                                                                         *)
(* Text is a sequence of one-character strings.  "n" is a newline, "f" a   *)
(* markdown code fence, "." a sentence end and "a" any other character.    *)
(*                                                                         *)
(* Every callback is modelled as the callback of the latest render: a      *)
(* React state value read by a handler (isResponding, streamingState) is   *)
(* the value current when the handler runs.  A handler runs atomically up  *)
(* to its next await on the backend or on the tool-execution collaborator. *)
(*                                                                         *)
(* The specifications share the state and the handlers and differ in       *)
(* what the environment does.  Under Spec the backend streams events of    *)
(* every kind in the first turn of a session, the user cancels, the stream *)
(* ends or fails; tool calls never settle.                                 *)
(* Under ContentSpec the backend streams Content events only, as deltas    *)
(* and as snapshots of several shapes.  Under ToolSpec the backend streams *)
(* ToolCallRequest events only, the tool-execution collaborator moves the  *)
(* calls forward and settles them in batches, and the continuation turns   *)
(* of the submission passes follow the one query of the user.              *)
(* Under TurnSpec the user submits input of every kind in several turns,   *)
(* also while a turn is active, and cancels; the backend streams no event  *)
(* and its stream ends or fails, for every kind of failure and for the     *)
(* errors that OpenAIContentGenerator rethrows.                            *)
(* ToolLiveSpec is ToolSpec with an environment that makes progress.       *)
(* Under LoopSpec the backend streams LoopDetected events in several       *)
(* turns; under CancelSpec it streams ToolCallRequest and UserCancelled    *)
(* events while tool calls settle and the user cancels.  CheckpointSpec    *)
(* runs the checkpoint effect of the hook on calls that await approval.    *)
(* AdapterSpec is about OpenAIContentGenerator (its client and its stream  *)
(* generator) and AuthSpec about validateAuthMethod                        *)
(* (packages/cli/src/config/auth.ts); they leave the hook alone.           *)
(***************************************************************************)
EXTENDS Integers, Sequences, FiniteSets, TLC

\* ---------------------------------------------------------------- bounds
\* Stream events delivered in one behaviour of Spec.
MaxEvents == 3
\* Content events delivered in one behaviour of ContentSpec.
MaxContentEvents == 3
\* Calls of submitQuery that start a turn in one behaviour.
MaxTurns == 3

\* ------------------------------------------------------- program constants
\* Number of trailing characters in a Content event's identity.
IdTailLen == 10
\* A pending entry is refreshed when the buffer outgrew it by more than this.
UpdateMinDiff == 5

\* ------------------------------------------------------------------ inputs
\* What the backend adds to its text in one Content event.
Deltas ==
    { <<"a">>, <<".">>, <<"n", "n">>, <<"f">>,
      <<"a", "a", "a", "a", "a", "a">> }

\* The same under Spec, where the other event kinds are the subject.
SpecDeltas == { <<"a">>, <<".">> }

CallIds == {"c1", "c2", "c3"}

\* The order in which the backend uses the call identifiers.
CallOrder(c) == CASE c = "c1" -> 1 [] c = "c2" -> 2 [] OTHER -> 3

TurnIds == 1..MaxTurns

\* ------------------------------------------------------------ text helpers
EndsWith(s, c) == Len(s) > 0 /\ s[Len(s)] = c

\* String.prototype.startsWith
StartsWith(s, p) == Len(p) <= Len(s) /\ SubSeq(s, 1, Len(p)) = p

\* String.prototype.substring(from, to), 0-based, to exclusive
Substring(s, from, to) == SubSeq(s, from + 1, to)

\* String.prototype.slice(-k)
SliceLast(s, k) == IF Len(s) <= k THEN s ELSE SubSeq(s, Len(s) - k + 1, Len(s))

Max(S) == CHOOSE x \in S : \A y \in S : y <= x

\* Number of code fences among the first i characters of s.
FenceCount(s, i) == Cardinality({j \in 1..i : s[j] = "f"})

\* The 0-based position i of s lies inside an unterminated code block.
IsIndexInsideCodeBlock(s, i) == FenceCount(s, i) % 2 = 1

\* markdownUtilities.findLastSafeSplitPoint: the start of the code block the
\* end of the text is inside of; otherwise the position after the last blank
\* line that is outside every code block; otherwise the length of the text.
findLastSafeSplitPoint(content) ==
    IF IsIndexInsideCodeBlock(content, Len(content))
    THEN Max({j \in 1..Len(content) : content[j] = "f"}) - 1
    ELSE LET dnl == {j \in 1..(Len(content) - 1) :
                        /\ content[j] = "n"
                        /\ content[j + 1] = "n"
                        /\ ~IsIndexInsideCodeBlock(content, j + 1)}
         IN IF dnl = {} THEN Len(content) ELSE Max(dnl) + 1

\* -------------------------------------------------------- transcript items
\* An entry has a type, a text (assistant, user and notice entries) and the
\* display status of its tools (tool groups).
NoItem == [type |-> "none", text |-> <<>>, tools |-> <<>>]

Info(msg) == [type |-> "info", text |-> <<msg>>, tools |-> <<>>]

ErrorItem(msg) == [type |-> "error", text |-> <<msg>>, tools |-> <<>>]

UserItem(msg) == [type |-> "user", text |-> <<msg>>, tools |-> <<>>]

GeminiItem(ty, txt) == [type |-> ty, text |-> txt, tools |-> <<>>]

IsGeminiType(ty) == ty \in {"gemini", "gemini_content"}

\* useHistoryManager.addItem: append to the transcript.
addItem(hist, item) == Append(hist, item)

RECURSIVE AssistantText(_)
\* The assistant text of a list of transcript entries, in order.
AssistantText(items) ==
    IF items = <<>> THEN <<>>
    ELSE (IF IsGeminiType(Head(items).type) THEN Head(items).text ELSE <<>>)
         \o AssistantText(Tail(items))

\* ------------------------------------------------------ content reassembler
\* A pending entry is refreshed only on "substantial" new content.
shouldUpdate(currentText, newBuffer) ==
    /\ currentText # newBuffer
    /\ \/ Len(newBuffer) - Len(currentText) > UpdateMinDiff
       \/ EndsWith(newBuffer, " ")
       \/ EndsWith(newBuffer, ".")
       \/ EndsWith(newBuffer, "!")
       \/ EndsWith(newBuffer, "?")

\* Whether a fragment is taken as the full accumulated text.
\* A variant of the test that takes every fragment for a delta.
IsAccumulatedNever(eventValue, currentBuffer) == FALSE

IsAccumulated(eventValue, currentBuffer) == StartsWith(eventValue, currentBuffer)

\* A variant that joins every fragment to the buffer.
newGeminiMessageBufferJoined(eventValue, currentBuffer) ==
    currentBuffer \o eventValue

\* The buffer a fragment yields before a split is taken: the buffer itself for
\* an empty fragment, the fragment when it holds the whole text so far, the
\* two joined otherwise.
newGeminiMessageBuffer(eventValue, currentBuffer) ==
    IF eventValue = <<>> THEN currentBuffer
    ELSE IF IsAccumulated(eventValue, currentBuffer) THEN eventValue
    ELSE currentBuffer \o eventValue

\* The entry closed by a split is appended only under this condition.
AddsBeforeText(beforeText, currentText) ==
    beforeText # <<>> /\ beforeText # currentText

\* handleContentEvent: the buffer it returns, and the pending entry and the
\* transcript it leaves.
handleContentEvent(eventValue, currentBuffer, pend, hist, cancelled) ==
    LET same == [buffer |-> currentBuffer, pending |-> pend, history |-> hist]
    IN
    IF cancelled THEN [same EXCEPT !.buffer = <<>>]
    ELSE IF eventValue = <<>> THEN same
    ELSE
    LET newBuffer == newGeminiMessageBuffer(eventValue, currentBuffer)
    IN
    IF newBuffer = currentBuffer THEN same
    ELSE
    LET fresh == ~IsGeminiType(pend.type)
        hist1 == IF fresh /\ pend # NoItem THEN addItem(hist, pend) ELSE hist
        pend1 == IF fresh THEN GeminiItem("gemini", <<>>) ELSE pend
        splitPoint == findLastSafeSplitPoint(newBuffer)
        currentText == pend1.text
    IN
    IF splitPoint = Len(newBuffer)
    THEN [buffer |-> newBuffer,
          pending |-> IF shouldUpdate(currentText, newBuffer)
                      THEN GeminiItem(pend1.type, newBuffer)
                      ELSE pend1,
          history |-> hist1]
    ELSE
    LET beforeText == Substring(newBuffer, 0, splitPoint)
        afterText == Substring(newBuffer, splitPoint, Len(newBuffer))
    IN [buffer |-> afterText,
        pending |-> GeminiItem("gemini_content", afterText),
        history |-> IF AddsBeforeText(beforeText, currentText)
                    THEN addItem(hist1, GeminiItem(pend1.type, beforeText))
                    ELSE hist1]

\* ------------------------------------------------------------------- state
VARIABLES
    history,                    \* the transcript (addItem appends)
    pendingHistoryItem,         \* pendingHistoryItemRef
    turnCancelled,              \* turnCancelledRef
    isResponding,
    thought,
    loopDetected,               \* loopDetectedRef
    abortController,            \* abortControllerRef: id of the controller, 0 = null
    aborted,                    \* controllers whose signal was raised
    modelSwitchedFromQuotaError,
    promptCount,                \* session stats: getPromptCount()
    toolCalls,                  \* the tool-call registry of useReactToolScheduler
    toolSubmissionInProgress,   \* toolSubmissionInProgressRef
    pendingToolSubmission,      \* pendingToolSubmissionRef: a batch, <<>> = null
    timers,                     \* batches handed to setTimeout(.., 0)
    streams,                    \* per call of submitQuery: the locals of the turn
    clientHistory,              \* what geminiClient was given: sends and addHistory
    batchLog,                   \* per settled batch: what became of it
    cancelLog,                  \* the calls cancelOngoingRequest was called on
    hostLog,                    \* the notifications given to the host, the last call
    delivery,                   \* the last stream event delivered
    nEvents,
    nTurns,
    requestOf,                  \* per tool call: the name and file_path of its request
    checkpointFiles,            \* the checkpoint records written with fs.writeFile
    lastRun,                    \* the last run of saveRestorableToolCalls
    effectDeps,                 \* the dependencies the checkpoint effect last ran with
    nRuns,
    openai,                     \* OpenAIContentGenerator: this.openai
    generation,                 \* the locals of the generator of generateContentStream
    adapterCall,                \* the last call of a method of the generator
    processEnv,                 \* process.env, after loadEnvironment
    authCall                    \* the last call of validateAuthMethod

hookVars == <<history, pendingHistoryItem, turnCancelled, isResponding, thought,
              loopDetected, abortController, aborted, modelSwitchedFromQuotaError,
              promptCount>>

toolVars == <<toolCalls, toolSubmissionInProgress, pendingToolSubmission, timers,
              batchLog>>

checkpointVars == <<requestOf, checkpointFiles, lastRun, effectDeps, nRuns>>

adapterVars == <<openai, generation, adapterCall>>

authVars == <<processEnv, authCall>>

\* What the handlers of the hook leave alone.
sideVars == <<checkpointVars, adapterVars, authVars>>

vars == <<hookVars, toolVars, streams, clientHistory, delivery, cancelLog, hostLog,
          nEvents, nTurns, sideVars>>

NoCall == [status |-> "none", client |-> FALSE, response |-> FALSE,
           submitted |-> FALSE, signal |-> 0, promptId |-> 0]

NoStream == [state |-> "none", cont |-> FALSE, pass |-> <<>>, signal |-> 0,
             promptId |-> 0, start |-> 0, buffer |-> <<>>, ids |-> {},
             requests |-> <<>>, backendText |-> <<>>, snapshots |-> FALSE,
             delivered |-> {}, redelivered |-> FALSE,
             reassembled |-> <<>>, arrivals |-> <<>>]

\* The last call noted in hostLog: a call of submitQuery with the kind of its
\* input, or a failure thrown by the stream of a turn with its kind.
CallNoted(op, t, input) == [op |-> op, turn |-> t, input |-> input]

NoCallYet == CallNoted("none", 0, "none")

NoDelivery == [turn |-> 0, event |-> [type |-> "none", value |-> <<>>],
               redelivery |-> FALSE, consumed |-> FALSE, serial |-> 0]

\* The request of a tool call, as far as the checkpoint effect reads it: the
\* name of the tool and whether args.file_path is there.
Request(name, filePath) == [name |-> name, filePath |-> filePath]

\* The run of saveRestorableToolCalls noted in lastRun: the restorable calls it
\* found, whether it reached its loop, whether it had a git service, what the
\* collaborators did for each call, the records it wrote, the debug messages
\* it reported and whether its promise was rejected.
NoRun == [calls |-> <<>>, entered |-> FALSE, git |-> FALSE,
          outcome |-> [c \in CallIds |-> "none"],
          records |-> <<>>, messages |-> <<>>, rejected |-> FALSE]

\* The locals of the generator that generateContentStream returns.  received
\* is the text of the content deltas of the chunks so far, yielded the
\* responses given to the consumer.
NoGeneration == [state |-> "none", accumulatedContent |-> <<>>,
                 previousContentLength |-> 0, accumulatedToolCalls |-> <<>>,
                 received |-> <<>>, yielded |-> <<>>, chunks |-> 0]

AdapterCalled(method, result) == [method |-> method, result |-> result]

\* The variables of the environment that validateAuthMethod reads.
EnvNames == {"GOOGLE_CLOUD_PROJECT", "GOOGLE_CLOUD_LOCATION", "GEMINI_API_KEY",
             "GOOGLE_API_KEY", "OPENAI_API_KEY"}

\* The value of a variable that is not in process.env.
Unset == "undefined"

\* The call of validateAuthMethod noted in authCall: the method, what the user
\* would answer at the prompt, whether the user was prompted and the result
\* ("null" for null).
AuthCalled(method, answer, prompted, result) ==
    [method |-> method, answer |-> answer, prompted |-> prompted,
     result |-> result]

\* The hook after its first render, when the checkpoint effect has not run
\* yet, and an OpenAIContentGenerator whose constructor has returned: the
\* constructor has called initializeOpenAI, which is suspended at its import.
InitHook ==
    /\ history = <<>>
    /\ pendingHistoryItem = NoItem
    /\ turnCancelled = FALSE
    /\ isResponding = FALSE
    /\ thought = "none"
    /\ loopDetected = FALSE
    /\ abortController = 0
    /\ aborted = {}
    /\ modelSwitchedFromQuotaError = FALSE
    /\ promptCount = 0
    /\ toolCalls = [c \in CallIds |-> NoCall]
    /\ toolSubmissionInProgress = FALSE
    /\ pendingToolSubmission = <<>>
    /\ timers = {}
    /\ streams = [t \in TurnIds |-> NoStream]
    /\ clientHistory = <<>>
    /\ batchLog = <<>>
    /\ delivery = NoDelivery
    /\ cancelLog = [called |-> {}, passed |-> {}]
    /\ hostLog = [onAuthError |-> <<>>, onCancelSubmit |-> <<>>, last |-> NoCallYet]
    /\ nEvents = 0
    /\ nTurns = 0
    /\ checkpointFiles = <<>>
    /\ lastRun = NoRun
    /\ effectDeps = <<>>
    /\ nRuns = 0
    /\ openai = "pending"
    /\ generation = NoGeneration
    /\ adapterCall = AdapterCalled("none", "none")
    /\ authCall = AuthCalled("none", "", FALSE, "none")

Init ==
    /\ InitHook
    /\ requestOf = [c \in CallIds |-> Request("replace", TRUE)]
    /\ processEnv = [n \in EnvNames |-> Unset]

\* ---------------------------------------------------------- streaming state
IsTerminal(status) == status \in {"success", "error", "cancelled"}

Registered == {c \in CallIds : toolCalls[c].status # "none"}

\* The streamingState memo.
streamingState ==
    IF \E c \in CallIds : toolCalls[c].status = "awaiting_approval"
    THEN "WaitingForConfirmation"
    ELSE IF \/ isResponding
            \/ \E c \in CallIds :
                  \/ toolCalls[c].status \in {"executing", "scheduled", "validating"}
                  \/ IsTerminal(toolCalls[c].status) /\ ~toolCalls[c].submitted
         THEN "Responding"
         ELSE "Idle"

\* ------------------------------------------------------- stream dispatcher
FinishReasons == {"STOP", "MAX_TOKENS"}

\* The values of FinishReason, the keys of the table of handleFinishedEvent.
AllFinishReasons ==
    {"FINISH_REASON_UNSPECIFIED", "STOP", "MAX_TOKENS", "SAFETY", "RECITATION",
     "LANGUAGE", "BLOCKLIST", "PROHIBITED_CONTENT", "SPII", "OTHER",
     "MALFORMED_FUNCTION_CALL", "IMAGE_SAFETY", "UNEXPECTED_TOOL_CALL"}

\* A variant of the table with a message for every reason.
finishReasonMessagesAlways(reason) == "Response stopped for other reasons."

\* finishReasonMessages: "" stands for undefined, which is also what the
\* lookup of a key the table does not hold gives.
finishReasonMessages(reason) ==
    CASE reason = "FINISH_REASON_UNSPECIFIED" -> ""
      [] reason = "STOP" -> ""
      [] reason = "MAX_TOKENS" -> "Response truncated due to token limits."
      [] reason = "SAFETY" -> "Response stopped due to safety reasons."
      [] reason = "RECITATION" -> "Response stopped due to recitation policy."
      [] reason = "LANGUAGE" -> "Response stopped due to unsupported language."
      [] reason = "BLOCKLIST" -> "Response stopped due to forbidden terms."
      [] reason = "PROHIBITED_CONTENT" -> "Response stopped due to prohibited content."
      [] reason = "SPII" ->
            "Response stopped due to sensitive personally identifiable information."
      [] reason = "OTHER" -> "Response stopped for other reasons."
      [] reason = "MALFORMED_FUNCTION_CALL" ->
            "Response stopped due to malformed function call."
      [] reason = "IMAGE_SAFETY" -> "Response stopped due to image safety violations."
      [] reason = "UNEXPECTED_TOOL_CALL" ->
            "Response stopped due to unexpected tool call."
      [] OTHER -> ""

\* The identity under which an event is remembered as processed.  serial
\* stands for Date.now() and Math.random(): a value no earlier event had.
EventId(e, serial) ==
    IF e.type = "content"
    THEN <<e.type, Len(e.value), SliceLast(e.value, IdTailLen)>>
    ELSE <<e.type, serial, <<>>>>

\* The handlers see and change these parts of the hook and of the loop.
Hook(buffer, requests) ==
    [history |-> history, pending |-> pendingHistoryItem, thought |-> thought,
     loopDetected |-> loopDetected, isResponding |-> isResponding,
     buffer |-> buffer, requests |-> requests]

CancelTool(status) ==
    IF status \in {"Pending", "Confirming", "Executing"} THEN "Canceled" ELSE status

handleUserCancelledEvent(h, cancelled) ==
    IF cancelled THEN h
    ELSE
    LET flushed ==
            IF h.pending = NoItem THEN h.history
            ELSE IF h.pending.type = "tool_group"
            THEN addItem(h.history,
                         [h.pending EXCEPT
                            !.tools = [i \in 1..Len(h.pending.tools) |->
                                          CancelTool(h.pending.tools[i])]])
            ELSE addItem(h.history, h.pending)
    IN [h EXCEPT !.history = addItem(flushed, Info("User cancelled the request.")),
                 !.pending = NoItem,
                 !.isResponding = FALSE,
                 !.thought = "none"]

handleErrorEvent(h) ==
    LET flushed == IF h.pending = NoItem THEN h.history
                   ELSE addItem(h.history, h.pending)
    IN [h EXCEPT !.history = addItem(flushed, ErrorItem("api error")),
                 !.pending = NoItem,
                 !.thought = "none"]

handleFinishedEvent(h, reason) ==
    IF finishReasonMessages(reason) # ""
    THEN [h EXCEPT !.history = addItem(h.history, Info(finishReasonMessages(reason)))]
    ELSE h

\* A variant of the ToolCallRequest case that keeps every request.
AddRequestAgain(requests, callId) == Append(requests, callId)

\* The ToolCallRequest case: an idempotent insert by call identifier.
AddRequest(requests, callId) ==
    IF \E i \in 1..Len(requests) : requests[i] = callId
    THEN requests
    ELSE Append(requests, callId)

\* The switch of processGeminiStreamEvents.
Dispatch(e, h, cancelled) ==
    CASE e.type = "thought" -> [h EXCEPT !.thought = e.value[1]]
      [] e.type = "content" ->
            LET r == handleContentEvent(e.value, h.buffer, h.pending, h.history,
                                        cancelled)
            IN [h EXCEPT !.buffer = r.buffer, !.pending = r.pending,
                         !.history = r.history]
      [] e.type = "tool_call_request" ->
            [h EXCEPT !.requests = AddRequest(h.requests, e.value[1])]
      [] e.type = "user_cancelled" -> handleUserCancelledEvent(h, cancelled)
      [] e.type = "error" -> handleErrorEvent(h)
      [] e.type = "chat_compressed" ->
            [h EXCEPT !.history = addItem(h.history, Info("chat compressed"))]
      [] e.type \in {"tool_call_confirmation", "tool_call_response"} -> h
      [] e.type = "max_session_turns" ->
            [h EXCEPT !.history = addItem(h.history, Info("max session turns"))]
      [] e.type = "finished" -> handleFinishedEvent(h, e.value[1])
      [] e.type = "loop_detected" -> [h EXCEPT !.loopDetected = TRUE]

\* Whether the loop skips an event as already processed.
IsDuplicate(ids, id) == id \in ids

\* One iteration of the for-await loop of processGeminiStreamEvents on turn t:
\* event e arrives, as a new event of the backend or as the redelivery of one
\* it delivered before.  d is what a new Content event adds to the text of
\* the backend, sent as a snapshot or not.
ProcessEvent(t, e, redelivery, d, snapshot) ==
    LET st == streams[t]
        id == EventId(e, nEvents + 1)
        h == Hook(st.buffer, st.requests)
        r == IF IsDuplicate(st.ids, id) THEN h ELSE Dispatch(e, h, turnCancelled)
    IN
    /\ st.state = "open"
    /\ redelivery => e \in st.delivered
    /\ nEvents' = nEvents + 1
    /\ delivery' = [turn |-> t, event |-> e, redelivery |-> redelivery,
                    consumed |-> ~IsDuplicate(st.ids, id), serial |-> nEvents + 1]
    /\ history' = r.history
    /\ pendingHistoryItem' = r.pending
    /\ thought' = r.thought
    /\ loopDetected' = r.loopDetected
    /\ isResponding' = r.isResponding
    /\ streams' = [streams EXCEPT
                     ![t].buffer = r.buffer,
                     ![t].requests = r.requests,
                     ![t].ids = st.ids \cup {id},
                     ![t].delivered = st.delivered \cup {e},
                     ![t].redelivered = st.redelivered \/ redelivery,
                     ![t].arrivals =
                         IF e.type = "tool_call_request" /\ ~IsDuplicate(st.ids, id)
                         THEN Append(st.arrivals, e.value[1])
                         ELSE st.arrivals,
                     ![t].backendText = st.backendText \o d,
                     ![t].snapshots = st.snapshots \/ snapshot]
    /\ UNCHANGED <<turnCancelled, abortController, aborted,
                   modelSwitchedFromQuotaError, promptCount, toolVars,
                   clientHistory, nTurns>>
    /\ UNCHANGED <<cancelLog, sideVars, hostLog>>

Event(ty, v) == [type |-> ty, value |-> v]

\* A Content event.  The backend has produced backendText so far and adds d
\* to it; it sends d alone (a delta) or the whole text so far (a snapshot).
ContentStep(t, d, snapshot) ==
    LET st == streams[t]
        v == IF snapshot THEN st.backendText \o d ELSE d
    IN
    /\ st.state = "open"
    /\ snapshot => st.backendText # <<>>
    /\ ProcessEvent(t, Event("content", v), FALSE, d, snapshot)

\* Call identifiers the backend has used already.
UsedCallIds ==
    Registered \cup
    {c \in CallIds : \E t \in TurnIds : \E i \in 1..Len(streams[t].requests) :
                        streams[t].requests[i] = c}

\* The backend names a new call by the first identifier it has not used.
FreshCallId(c) ==
    /\ c \in CallIds \ UsedCallIds
    /\ \A x \in CallIds \ UsedCallIds : CallOrder(c) <= CallOrder(x)

ToolCallRequestStep(t, c) ==
    /\ FreshCallId(c)
    /\ ProcessEvent(t, Event("tool_call_request", <<c>>), FALSE, <<>>, FALSE)

\* The events the backend streams under Spec.
ContentEvent(t, d) == nEvents < MaxEvents /\ ContentStep(t, d, FALSE)

ThoughtEvent(t) ==
    /\ nEvents < MaxEvents
    /\ ProcessEvent(t, Event("thought", <<"t1">>), FALSE, <<>>, FALSE)

ToolCallRequestEvent(t, c) == nEvents < MaxEvents /\ ToolCallRequestStep(t, c)

UserCancelledEvent(t) ==
    /\ nEvents < MaxEvents
    /\ ProcessEvent(t, Event("user_cancelled", <<>>), FALSE, <<>>, FALSE)

ErrorEvent(t) ==
    /\ nEvents < MaxEvents
    /\ ProcessEvent(t, Event("error", <<>>), FALSE, <<>>, FALSE)

ChatCompressedEvent(t) ==
    /\ nEvents < MaxEvents
    /\ ProcessEvent(t, Event("chat_compressed", <<>>), FALSE, <<>>, FALSE)

ToolCallConfirmationEvent(t) ==
    /\ nEvents < MaxEvents
    /\ ProcessEvent(t, Event("tool_call_confirmation", <<>>), FALSE, <<>>, FALSE)

ToolCallResponseEvent(t) ==
    /\ nEvents < MaxEvents
    /\ ProcessEvent(t, Event("tool_call_response", <<>>), FALSE, <<>>, FALSE)

MaxSessionTurnsEvent(t) ==
    /\ nEvents < MaxEvents
    /\ ProcessEvent(t, Event("max_session_turns", <<>>), FALSE, <<>>, FALSE)

FinishedEvent(t, reason) ==
    /\ nEvents < MaxEvents
    /\ ProcessEvent(t, Event("finished", <<reason>>), FALSE, <<>>, FALSE)

LoopDetectedEvent(t) ==
    /\ nEvents < MaxEvents
    /\ ProcessEvent(t, Event("loop_detected", <<>>), FALSE, <<>>, FALSE)

\* The backend delivers again an event it delivered before in this turn.
RedeliveredEvent(t, e) ==
    /\ nEvents < MaxEvents
    /\ ProcessEvent(t, e, TRUE, <<>>, FALSE)

\* The events the backend streams under ContentSpec.
ContentFragment(t, d, snapshot) ==
    nEvents < MaxContentEvents /\ ContentStep(t, d, snapshot)

\* A Content event that carries no text.
EmptyFragment(t) ==
    /\ nEvents < MaxContentEvents
    /\ ProcessEvent(t, Event("content", <<>>), FALSE, <<>>, FALSE)

\* --------------------------------------------------------- tool scheduling
\* The calls of a batch, as a set.
CallsOf(batch) == {batch[i] : i \in 1..Len(batch)}

\* useReactToolScheduler.schedule: registers the requests in state scheduled,
\* tagged with the signal they were scheduled under.
scheduleToolCalls(calls, requests, signal, client, pid) ==
    [c \in CallIds |->
        IF c \in CallsOf(requests)
        THEN [status |-> "scheduled", client |-> client, response |-> FALSE,
              submitted |-> FALSE, signal |-> signal, promptId |-> pid]
        ELSE calls[c]]

\* useReactToolScheduler.markToolsAsSubmitted
markToolsAsSubmitted(calls, ids) ==
    [c \in CallIds |->
        IF c \in ids THEN [calls[c] EXCEPT !.submitted = TRUE] ELSE calls[c]]

\* What became of a settled batch, kept per batch in arrival order.
SetFate(log, batch, fate) ==
    [i \in 1..Len(log) |->
        IF log[i].calls = batch THEN [log[i] EXCEPT !.fate = fate] ELSE log[i]]

\* ----------------------------------------------------------- turn coordinator
\* String.prototype.trim() leaves something.
NonBlank(text) == \E i \in 1..Len(text) : text[i] \notin {"n", " "}

Send(t, parts, pid) == [kind |-> "send", turn |-> t, parts |-> parts, promptId |-> pid]

AddHistory(parts) == [kind |-> "addHistory", turn |-> 0, parts |-> parts, promptId |-> 0]

\* A variant of the guard of submitQuery that looks at Responding only.
SubmitBlockedResponding(isContinuation) ==
    streamingState = "Responding" /\ ~isContinuation

\* The guard of submitQuery: a turn is active and the call is no continuation.
SubmitBlocked(isContinuation) ==
    streamingState \in {"Responding", "WaitingForConfirmation"} /\ ~isContinuation

\* submitQuery up to its await of processGeminiStreamEvents, for a query that
\* goes to the model: a string typed by the user (parts = <<>>) or the function
\* responses of a continuation.  pass is the batch whose submission pass awaits
\* the call, <<>> when the user made it; hist is the transcript at the call.
submitQuery(t, parts, isContinuation, pid, pass, hist) ==
    /\ ~SubmitBlocked(isContinuation)
    /\ nTurns < MaxTurns
    /\ t = nTurns + 1
    /\ nTurns' = t
    /\ modelSwitchedFromQuotaError' =
          (IF isContinuation THEN modelSwitchedFromQuotaError ELSE FALSE)
    /\ abortController' = t
    /\ turnCancelled' = FALSE
    /\ history' = IF isContinuation THEN hist
                  ELSE addItem(hist, UserItem("query"))
    /\ promptCount' = IF isContinuation THEN promptCount ELSE promptCount + 1
    /\ thought' = IF isContinuation THEN thought ELSE "none"
    /\ isResponding' = TRUE
    /\ clientHistory' = Append(clientHistory, Send(t, parts, pid))
    /\ hostLog' = [hostLog EXCEPT !.last =
                      CallNoted("submitQuery", t,
                                IF isContinuation THEN "continuation" ELSE "query")]
    /\ streams' = [streams EXCEPT ![t] =
                      [NoStream EXCEPT !.state = "open",
                                       !.cont = isContinuation,
                                       !.pass = pass,
                                       !.signal = t,
                                       !.promptId = pid,
                                       !.start = Len(history')]]

\* The user submits a prompt for the model.
UserSubmit ==
    /\ submitQuery(nTurns + 1, <<>>, FALSE, promptCount, <<>>, history)
    /\ UNCHANGED <<pendingHistoryItem, loopDetected, aborted, toolVars,
                   delivery, nEvents>>
    /\ UNCHANGED <<cancelLog, sideVars>>

\* The user submits a slash command that schedules a tool: submitQuery returns
\* after prepareQueryForGemini scheduled the client-initiated call.
UserSubmitSlashTool(c) ==
    /\ ~SubmitBlocked(FALSE)
    /\ nTurns < MaxTurns
    /\ FreshCallId(c)
    /\ nTurns' = nTurns + 1
    /\ modelSwitchedFromQuotaError' = FALSE
    /\ abortController' = nTurns + 1
    /\ turnCancelled' = FALSE
    /\ toolCalls' = scheduleToolCalls(toolCalls, <<c>>, nTurns + 1, TRUE, promptCount)
    /\ UNCHANGED <<history, pendingHistoryItem, isResponding, thought, loopDetected,
                   aborted, promptCount, toolSubmissionInProgress,
                   pendingToolSubmission, timers, batchLog, streams, clientHistory,
                   delivery, nEvents>>
    /\ hostLog' = [hostLog EXCEPT !.last =
                      CallNoted("submitQuery", nTurns + 1, "schedule_tool")]
    /\ UNCHANGED <<cancelLog, sideVars>>

\* The inputs for which pre-processing yields nothing for the model: a blank
\* string, a slash command handled by its processor, a shell command in shell
\* mode and an @-command that does not proceed.
NonProceedingInputs == {"blank", "handled", "shell", "at"}

\* prepareQueryForGemini on a string input of the given kind: whether the turn
\* proceeds and the transcript it leaves.  cancelled is turnCancelledRef as
\* the function reads it.
prepareQueryForGemini(input, cancelled, hist) ==
    IF cancelled THEN [shouldProceed |-> FALSE, history |-> hist]
    ELSE IF input = "blank" THEN [shouldProceed |-> FALSE, history |-> hist]
    ELSE IF input \in {"handled", "shell"}
    THEN [shouldProceed |-> FALSE, history |-> hist]
    ELSE IF input = "at"
    THEN [shouldProceed |-> FALSE, history |-> addItem(hist, UserItem("query"))]
    ELSE [shouldProceed |-> TRUE, history |-> addItem(hist, UserItem("query"))]

\* A variant of submitQuery that goes on to the backend whatever
\* pre-processing returned.
UserSubmitInputAnyway(input) ==
    LET prepared == prepareQueryForGemini(input, FALSE, history)
        t == nTurns + 1
    IN
    /\ ~SubmitBlocked(FALSE)
    /\ nTurns < MaxTurns
    /\ nTurns' = t
    /\ modelSwitchedFromQuotaError' = FALSE
    /\ abortController' = t
    /\ turnCancelled' = FALSE
    /\ history' = prepared.history
    /\ isResponding' = TRUE
    /\ clientHistory' = Append(clientHistory, Send(t, <<>>, promptCount))
    /\ streams' = [streams EXCEPT ![t] =
                      [NoStream EXCEPT !.state = "open", !.signal = t,
                                       !.promptId = promptCount,
                                       !.start = Len(history')]]
    /\ hostLog' = [hostLog EXCEPT !.last = CallNoted("submitQuery", t, input)]
    /\ UNCHANGED <<pendingHistoryItem, thought, loopDetected, aborted,
                   promptCount, toolVars, delivery, cancelLog, sideVars, nEvents>>

\* The user submits an input that pre-processing keeps from the model:
\* submitQuery returns after prepareQueryForGemini.
UserSubmitInput(input) ==
    LET prepared == prepareQueryForGemini(input, FALSE, history)
    IN
    /\ ~SubmitBlocked(FALSE)
    /\ nTurns < MaxTurns
    /\ nTurns' = nTurns + 1
    /\ modelSwitchedFromQuotaError' = FALSE
    /\ abortController' = nTurns + 1
    /\ turnCancelled' = FALSE
    /\ ~prepared.shouldProceed
    /\ history' = prepared.history
    /\ hostLog' = [hostLog EXCEPT !.last =
                      CallNoted("submitQuery", nTurns + 1, input)]
    /\ UNCHANGED <<pendingHistoryItem, isResponding, thought, loopDetected,
                   aborted, promptCount, toolVars, streams, clientHistory,
                   delivery, cancelLog, sideVars, nEvents>>

\* submitQuery is called without the continuation option while a turn is
\* active: it returns at its guard.
SubmitWhileActive ==
    /\ SubmitBlocked(FALSE)
    /\ hostLog' = [hostLog EXCEPT !.last =
                      CallNoted("submitQuery", nTurns, "blocked")]
    /\ UNCHANGED <<hookVars, toolVars, streams, clientHistory, delivery,
                   cancelLog, sideVars, nEvents, nTurns>>

\* A variant of the finally block that hands the batch it has just processed
\* to setTimeout again.
PassFinallyAgain(pass) ==
    IF pass = <<>>
    THEN UNCHANGED <<toolSubmissionInProgress, pendingToolSubmission, timers,
                     batchLog>>
    ELSE /\ toolSubmissionInProgress' = FALSE
         /\ pendingToolSubmission' = <<>>
         /\ timers' = timers \cup {pass}
         /\ batchLog' = SetFate(batchLog, pass, "deferred")

\* The finally block of handleCompletedTools, run when the submitQuery that a
\* pass on batch `pass` awaited has returned or thrown; nothing when the user
\* made the call (pass = <<>>).
PassFinally(pass) ==
    IF pass = <<>>
    THEN UNCHANGED <<toolSubmissionInProgress, pendingToolSubmission, timers,
                     batchLog>>
    ELSE /\ toolSubmissionInProgress' = FALSE
         /\ pendingToolSubmission' = <<>>
         /\ timers' = IF pendingToolSubmission # <<>>
                      THEN timers \cup {pendingToolSubmission}
                      ELSE timers
         /\ batchLog' =
               LET done == SetFate(batchLog, pass, "processed")
               IN IF pendingToolSubmission # <<>>
                  THEN SetFate(done, pendingToolSubmission, "deferred")
                  ELSE done

\* The record of a turn whose submitQuery has returned: the locals of
\* processGeminiStreamEvents are gone.
Closed(st, how) ==
    [st EXCEPT !.state = how, !.buffer = <<>>, !.ids = {}, !.requests = <<>>,
               !.delivered = {}, !.pass = <<>>, !.start = 0, !.arrivals = <<>>]

\* The stream of turn t ends: processGeminiStreamEvents schedules the requests
\* it collected and returns Completed, submitQuery flushes the pending entry,
\* emits the deferred loop notice and clears the responding flag.
StreamEnd(t) ==
    LET st == streams[t]
        flush == pendingHistoryItem # NoItem /\ NonBlank(pendingHistoryItem.text)
        hist1 == IF flush THEN addItem(history, pendingHistoryItem) ELSE history
    IN
    /\ st.state = "open"
    /\ toolCalls' = IF st.requests # <<>>
                    THEN scheduleToolCalls(toolCalls, st.requests, st.signal,
                                           FALSE, st.promptId)
                    ELSE toolCalls
    /\ history' = IF loopDetected THEN addItem(hist1, Info("loop detected"))
                  ELSE hist1
    /\ pendingHistoryItem' = IF flush THEN NoItem ELSE pendingHistoryItem
    /\ loopDetected' = FALSE
    /\ isResponding' = FALSE
    /\ streams' = [streams EXCEPT ![t] =
                      [Closed(st, "done") EXCEPT !.reassembled =
                          AssistantText(SubSeq(history, st.start + 1, Len(history)))
                          \o st.buffer]]
    /\ PassFinally(st.pass)
    /\ UNCHANGED <<turnCancelled, thought, abortController, aborted,
                   modelSwitchedFromQuotaError, promptCount, clientHistory,
                   delivery, nEvents, nTurns>>
    /\ UNCHANGED <<cancelLog, sideVars, hostLog>>

FailureKinds == {"unauthorized", "abort", "other"}

\* error instanceof UnauthorizedError
\* A variant of the test that recognises no failure as an authorization failure.
IsUnauthorizedErrorNever(kind) == FALSE

IsUnauthorizedError(kind) == kind = "unauthorized"

\* isNodeError(error) && error.name === 'AbortError'
IsAbortError(kind) == kind = "abort"

\* The catch block of submitQuery adds an error entry for the failure.
\* A variant of the catch block that reports an abort like any other failure.
CatchAddsErrorOnAbort(kind) == ~IsUnauthorizedError(kind)

CatchAddsError(kind) == ~IsUnauthorizedError(kind) /\ ~IsAbortError(kind)

\* The stream of turn t throws: the catch and finally blocks of submitQuery.
\* An AbortError is thrown only for a signal that was raised.
StreamFailAs(t, kind, cause) ==
    LET st == streams[t]
    IN
    /\ st.state = "open"
    /\ kind = "abort" => st.signal \in aborted
    /\ history' = IF CatchAddsError(kind)
                  THEN addItem(history, ErrorItem("api error"))
                  ELSE history
    /\ hostLog' = [hostLog EXCEPT
                      !.last = CallNoted("fail", t, cause),
                      !.onAuthError = IF IsUnauthorizedError(kind)
                                      THEN Append(@, t) ELSE @]
    /\ isResponding' = FALSE
    /\ streams' = [streams EXCEPT ![t] = Closed(st, "failed")]
    /\ PassFinally(st.pass)
    /\ UNCHANGED <<pendingHistoryItem, turnCancelled, thought, loopDetected,
                   abortController, aborted, modelSwitchedFromQuotaError,
                   promptCount, toolCalls, clientHistory, delivery, nEvents, nTurns>>
    /\ UNCHANGED <<cancelLog, sideVars>>

\* The streaming call of turn t throws a failure of the given kind.
StreamFail(t, kind) ==
    /\ kind \in FailureKinds
    /\ StreamFailAs(t, kind, kind)

\* What the OpenAI client throws: an APIError for a response with status 401
\* or 500, an Error that is no APIError, a value that is no Error.
BackendErrors ==
    {"AuthenticationError", "InternalServerError", "TypeError", "NonError"}

IsAPIError(error) == error \in {"AuthenticationError", "InternalServerError"}

IsError(error) == error # "NonError"

Status(error) == IF error = "AuthenticationError" THEN "401" ELSE "500"

AdapterMethods == {"generateContent", "generateContentStream", "embedContent"}

\* The catch block of a method of OpenAIContentGenerator: the value it throws
\* for the error of the client, as its class and its message.
adapterCatch(method, error) ==
    LET label == IF method = "embedContent" THEN "OpenAI Embeddings" ELSE "OpenAI"
    IN
    IF IsAPIError(error)
    THEN [class |-> "Error", message |-> <<label, "API Error", Status(error)>>]
    ELSE IF IsError(error)
    THEN [class |-> "Error", message |-> <<label, "Error">>]
    ELSE [class |-> error, message |-> <<>>]

\* The branch the catch block of submitQuery takes for a thrown value.
ThrownKind(thrown) ==
    IF thrown.class = "UnauthorizedError" THEN "unauthorized"
    ELSE IF thrown.class = "AbortError" THEN "abort"
    ELSE "other"

\* The stream of turn t, served by OpenAIContentGenerator, fails: the client
\* throws error and submitQuery catches what generateContentStream rethrows.
AdapterFail(t, error) ==
    /\ error \in BackendErrors
    /\ StreamFailAs(t, ThrownKind(adapterCatch("generateContentStream", error)), error)

\* The progress of a call through its states.
Rank(status) ==
    CASE status = "scheduled" -> 0
      [] status = "validating" -> 1
      [] status = "awaiting_approval" -> 2
      [] status = "executing" -> 3
      [] OTHER -> 4

\* The registered calls that have not reached a terminal state.
Outstanding == {c \in CallIds : Rank(toolCalls[c].status) < 4}

\* The calls a call of cancelOngoingRequest is about: the outstanding calls,
\* when no registered call has reached a terminal state yet.
CancelCase ==
    IF \A c \in Registered : ~IsTerminal(toolCalls[c].status)
    THEN Outstanding ELSE {}

\* A variant of abort() that raises no signal.
AbortNothing(controller) == aborted

\* abortControllerRef.current?.abort()
Abort(controller) ==
    IF controller # 0 THEN aborted \cup {controller} ELSE aborted

\* A variant of the guards that does not look at the cancellation flag.
CancelGuardsPassAgain == streamingState = "Responding"

\* The two guards of cancelOngoingRequest.
CancelGuardsPass == streamingState = "Responding" /\ ~turnCancelled

\* cancelOngoingRequest: nothing unless it passes its two guards.
cancelOngoingRequest ==
    LET passes == CancelGuardsPass
    IN
    /\ cancelLog' = [called |-> cancelLog.called \cup CancelCase,
                     passed |-> cancelLog.passed \cup
                                  (IF passes THEN CancelCase ELSE {})]
    /\ IF passes
       THEN /\ turnCancelled' = TRUE
            /\ aborted' = Abort(abortController)
            /\ history' = addItem(IF pendingHistoryItem # NoItem
                                  THEN addItem(history, pendingHistoryItem)
                                  ELSE history,
                                  Info("Request cancelled."))
            /\ pendingHistoryItem' = NoItem
            /\ hostLog' = [hostLog EXCEPT
                              !.onCancelSubmit = Append(@, abortController)]
            /\ isResponding' = FALSE
       ELSE UNCHANGED <<turnCancelled, aborted, history, pendingHistoryItem,
                        hostLog, isResponding>>
    /\ UNCHANGED <<thought, loopDetected, abortController,
                   modelSwitchedFromQuotaError, promptCount, toolVars, streams,
                   clientHistory, delivery, nEvents, nTurns>>
    /\ UNCHANGED sideVars

\* The tool-execution collaborator moves a call forward through its
\* non-terminal states.
ToolAdvance(c, status) ==
    /\ toolCalls[c].status # "none"
    /\ Rank(status) < 4
    /\ Rank(toolCalls[c].status) < Rank(status)
    /\ toolCalls' = [toolCalls EXCEPT ![c].status = status]
    /\ UNCHANGED <<hookVars, toolSubmissionInProgress, pendingToolSubmission,
                   timers, batchLog, streams, clientHistory, delivery, nEvents,
                   nTurns>>
    /\ UNCHANGED <<cancelLog, sideVars, hostLog>>

\* ------------------------------------------------------------ tool tracker
\* The host reports that the model was switched after a quota error.
QuotaFallback ==
    /\ isResponding
    /\ ~modelSwitchedFromQuotaError
    /\ modelSwitchedFromQuotaError' = TRUE
    /\ UNCHANGED <<history, pendingHistoryItem, turnCancelled, isResponding,
                   thought, loopDetected, abortController, aborted, promptCount,
                   toolVars, streams, clientHistory, delivery, nEvents, nTurns>>
    /\ UNCHANGED <<cancelLog, sideVars, hostLog>>

\* mapToDisplay: the tool group shown for a batch.
DisplayStatus(status) ==
    CASE status = "success" -> "Success"
      [] status = "error" -> "Error"
      [] status = "cancelled" -> "Canceled"
      [] status = "awaiting_approval" -> "Confirming"
      [] status = "executing" -> "Executing"
      [] OTHER -> "Pending"

mapToDisplay(batch, calls) ==
    [type |-> "tool_group", text |-> <<>>,
     tools |-> [i \in 1..Len(batch) |-> DisplayStatus(calls[batch[i]].status)]]

\* A variant of the entry guard that lets every call through.
EntryGuardOpen == FALSE

\* The entry guard of handleCompletedTools.
EntryGuardBlocks == isResponding \/ toolSubmissionInProgress

\* The calls of a batch that are terminal with a populated response.
\* A variant of the filter that does not look at the response.
completedAndReadyToSubmitToolsAll(batch, calls) ==
    SelectSeq(batch, LAMBDA c : IsTerminal(calls[c].status))

completedAndReadyToSubmitTools(batch, calls) ==
    SelectSeq(batch, LAMBDA c : IsTerminal(calls[c].status) /\ calls[c].response)

clientTools(batch, calls) ==
    SelectSeq(completedAndReadyToSubmitTools(batch, calls),
              LAMBDA c : calls[c].client)

\* A variant that takes the client-initiated calls for calls of the backend too.
geminiToolsAll(batch, calls) == completedAndReadyToSubmitTools(batch, calls)

geminiTools(batch, calls) ==
    SelectSeq(completedAndReadyToSubmitTools(batch, calls),
              LAMBDA c : ~calls[c].client)

allToolsCancelled(batch, calls) ==
    \A c \in CallsOf(geminiTools(batch, calls)) : calls[c].status = "cancelled"

\* A variant in which the quota flag suppresses nothing.
ContinuationSuppressedNever == FALSE

\* The continuation of a pass is suppressed once the model was switched for a
\* quota error.
ContinuationSuppressed == modelSwitchedFromQuotaError

\* handleCompletedTools on a batch, up to its await of submitQuery.  calls,
\* hist and log are the registry, the transcript and the batch log at the call.
handleCompletedTools(batch, calls, hist, log) ==
    LET client == clientTools(batch, calls)
        gemini == geminiTools(batch, calls)
        marked == markToolsAsSubmitted(calls, CallsOf(client) \cup CallsOf(gemini))
        still == <<pendingHistoryItem, turnCancelled, isResponding, thought,
                   loopDetected, abortController, aborted,
                   modelSwitchedFromQuotaError, promptCount, streams, delivery,
                   hostLog, nEvents, nTurns>>
    IN
    IF EntryGuardBlocks
    THEN /\ toolCalls' = calls
         /\ history' = hist
         /\ batchLog' = SetFate(log, batch, "blocked")
         /\ UNCHANGED <<toolSubmissionInProgress, clientHistory>>
         /\ UNCHANGED still
    ELSE IF gemini = <<>>
    THEN /\ toolCalls' = markToolsAsSubmitted(calls, CallsOf(client))
         /\ history' = hist
         /\ toolSubmissionInProgress' = TRUE
         /\ batchLog' = SetFate(log, batch, "processed")
         /\ UNCHANGED clientHistory
         /\ UNCHANGED still
    ELSE IF allToolsCancelled(batch, calls)
    THEN /\ toolCalls' = marked
         /\ history' = hist
         /\ clientHistory' = Append(clientHistory, AddHistory(gemini))
         /\ toolSubmissionInProgress' = TRUE
         /\ batchLog' = SetFate(log, batch, "processed")
         /\ UNCHANGED still
    ELSE IF ContinuationSuppressed
    THEN /\ toolCalls' = marked
         /\ history' = hist
         /\ toolSubmissionInProgress' = TRUE
         /\ batchLog' = SetFate(log, batch, "processed")
         /\ UNCHANGED clientHistory
         /\ UNCHANGED still
    ELSE /\ toolCalls' = marked
         /\ toolSubmissionInProgress' = TRUE
         /\ batchLog' = SetFate(log, batch, "pass")
         /\ submitQuery(nTurns + 1, gemini, TRUE, calls[gemini[1]].promptId,
                        batch, hist)
         /\ UNCHANGED <<pendingHistoryItem, loopDetected, aborted, delivery,
                        nEvents>>

\* A batch lists its calls in the order of their identifiers.
RECURSIVE InOrder(_)
InOrder(S) ==
    IF S = {} THEN <<>>
    ELSE LET c == CHOOSE x \in S : \A y \in S : CallOrder(x) <= CallOrder(y)
         IN <<c>> \o InOrder(S \ {c})

\* How a call may end: its terminal state, with its response populated or not.
Outcomes ==
    { [status |-> "success", response |-> TRUE],
      [status |-> "cancelled", response |-> TRUE],
      [status |-> "error", response |-> FALSE] }

\* The collaborator honours the signal a call was scheduled under: once it is
\* raised the call ends cancelled.
MayEnd(c, o) == toolCalls[c].signal \in aborted => o.status = "cancelled"

\* The onComplete callback given to useReactToolScheduler, called with a
\* settled batch; calls is the registry with the batch settled.
onComplete(batch, calls) ==
    LET hist == addItem(history, mapToDisplay(batch, calls))
        log == Append(batchLog, [calls |-> batch, fate |-> "arrived"])
    IN
    IF toolSubmissionInProgress
    THEN /\ pendingToolSubmission' = batch
         /\ batchLog' = SetFate(IF pendingToolSubmission # <<>>
                                THEN SetFate(log, pendingToolSubmission, "replaced")
                                ELSE log,
                                batch, "queued")
         /\ toolCalls' = calls
         /\ history' = hist
         /\ UNCHANGED <<pendingHistoryItem, turnCancelled, isResponding, thought,
                        loopDetected, abortController, aborted,
                        modelSwitchedFromQuotaError, promptCount,
                        toolSubmissionInProgress, timers, streams, clientHistory,
                        delivery, hostLog, nEvents, nTurns>>
    ELSE /\ handleCompletedTools(batch, calls, hist, log)
         /\ UNCHANGED <<pendingToolSubmission, timers>>

\* The collaborator settles the calls S together and delivers them as a batch.
Settle(S, outcome) ==
    /\ S # {}
    /\ S \subseteq Outstanding
    /\ \A c \in S : MayEnd(c, outcome[c])
    /\ onComplete(InOrder(S),
                  [c \in CallIds |->
                      IF c \in S
                      THEN [toolCalls[c] EXCEPT !.status = outcome[c].status,
                                                !.response = outcome[c].response]
                      ELSE toolCalls[c]])
    /\ UNCHANGED <<cancelLog, sideVars>>

\* The callback of setTimeout(.., 0) of a queued batch runs.
TimerFires(batch) ==
    /\ batch \in timers
    /\ timers' = timers \ {batch}
    /\ handleCompletedTools(batch, toolCalls, history, batchLog)
    /\ UNCHANGED pendingToolSubmission
    /\ UNCHANGED <<cancelLog, sideVars>>

\* A ToolCallRequest event under ToolSpec.
ToolCallRequestArrives(t, c) == ToolCallRequestStep(t, c)

\* -------------------------------------------------------- specification Spec
\* One turn of the dispatcher: the first prompt of the session.
FirstSubmit == nTurns = 0 /\ UserSubmit

Next ==
    \/ FirstSubmit
    \/ \E t \in TurnIds, d \in SpecDeltas : ContentEvent(t, d)
    \/ \E t \in TurnIds : ThoughtEvent(t)
    \/ \E t \in TurnIds, c \in CallIds : ToolCallRequestEvent(t, c)
    \/ \E t \in TurnIds : UserCancelledEvent(t)
    \/ \E t \in TurnIds : ErrorEvent(t)
    \/ \E t \in TurnIds : ChatCompressedEvent(t)
    \/ \E t \in TurnIds : ToolCallConfirmationEvent(t)
    \/ \E t \in TurnIds : ToolCallResponseEvent(t)
    \/ \E t \in TurnIds : MaxSessionTurnsEvent(t)
    \/ \E t \in TurnIds, reason \in FinishReasons : FinishedEvent(t, reason)
    \/ \E t \in TurnIds : LoopDetectedEvent(t)
    \/ \E t \in TurnIds : \E e \in streams[t].delivered : RedeliveredEvent(t, e)
    \/ \E t \in TurnIds : StreamEnd(t)
    \/ \E t \in TurnIds, kind \in FailureKinds : StreamFail(t, kind)
    \/ cancelOngoingRequest

Spec == Init /\ [][Next]_vars

\* ------------------------------------------------- specification ContentSpec
ContentNext ==
    \/ UserSubmit
    \/ \E t \in TurnIds, d \in Deltas, snapshot \in BOOLEAN :
          ContentFragment(t, d, snapshot)
    \/ \E t \in TurnIds : EmptyFragment(t)
    \/ \E t \in TurnIds : StreamEnd(t)

ContentSpec == Init /\ [][ContentNext]_vars

\* ---------------------------------------------------- specification ToolSpec
ToolNext ==
    \/ FirstSubmit
    \/ \E c \in CallIds : UserSubmitSlashTool(c)
    \/ \E t \in TurnIds, c \in CallIds : ToolCallRequestArrives(t, c)
    \/ \E t \in TurnIds : StreamEnd(t)
    \/ \E t \in TurnIds, kind \in FailureKinds : StreamFail(t, kind)
    \/ cancelOngoingRequest
    \/ QuotaFallback
    \/ \E c \in CallIds, status \in {"awaiting_approval"} :
          ToolAdvance(c, status)
    \/ \E S \in SUBSET CallIds : \E outcome \in [S -> Outcomes] : Settle(S, outcome)
    \/ \E batch \in timers : TimerFires(batch)

ToolSpec == Init /\ [][ToolNext]_vars

\* ---------------------------------------------------- specification TurnSpec
\* The user submits inputs of every kind, also while a turn is active, and
\* cancels; a stream ends or fails without an event; a scheduled tool call may
\* come to await approval but never settles.
TurnNext ==
    \/ UserSubmit
    \/ \E input \in NonProceedingInputs : UserSubmitInput(input)
    \/ \E c \in CallIds : UserSubmitSlashTool(c)
    \/ SubmitWhileActive
    \/ \E t \in TurnIds : StreamEnd(t)
    \/ \E t \in TurnIds, kind \in FailureKinds : StreamFail(t, kind)
    \/ \E t \in TurnIds, error \in BackendErrors : AdapterFail(t, error)
    \/ cancelOngoingRequest
    \/ \E c \in CallIds : ToolAdvance(c, "awaiting_approval")

TurnSpec == Init /\ [][TurnNext]_vars

\* --------------------------------------------------------------- properties
\* C1: when a turn that was not cancelled has drained a stream of Content
\* events that were all deltas, the assistant text committed to the transcript
\* followed by the open buffer is the concatenation of the deltas.
C1_DeltasReassembled ==
    \A t \in TurnIds :
        (streams[t].state = "done" /\ ~streams[t].snapshots)
            => streams[t].reassembled = streams[t].backendText

\* C2: when a turn has drained a stream of Content events that were snapshots
\* of the text so far, or snapshots mixed with deltas, the committed assistant
\* text followed by the open buffer is the whole text of the backend.
C2_SnapshotsReassembled ==
    \A t \in TurnIds :
        (streams[t].state = "done" /\ streams[t].snapshots)
            => streams[t].reassembled = streams[t].backendText

\* C7: a stream event that is redelivered within a turn adds no entry to the
\* transcript and registers no tool-call request.
C7_RedeliveryDropped ==
    [][(delivery' # delivery /\ delivery'.redelivery)
          => /\ history' = history
             /\ \A t \in TurnIds : streams'[t].requests = streams[t].requests]_vars

\* C8: an event that is not the redelivery of an earlier one is never skipped
\* by the deduplication.
C8_DistinctEventsConsumed ==
    [][(delivery' # delivery /\ ~delivery'.redelivery) => delivery'.consumed]_vars

\* A submission pass is awaiting its continuation turn.
PassInFlight ==
    \E t \in TurnIds : streams[t].state = "open" /\ streams[t].pass # <<>>

\* In the step taken, handleCompletedTools was called on the i-th batch.
Handled(i) ==
    /\ batchLog'[i].fate \in {"pass", "processed", "blocked"}
    /\ i <= Len(batchLog) => batchLog[i].fate \in {"queued", "deferred"}

\* In the step taken, a submission pass started on the i-th batch.
PassStarted(i) == Handled(i) /\ batchLog'[i].fate # "blocked"

\* The entries of the client history that carry a response of call c.
Carrying(c) ==
    {i \in 1..Len(clientHistory) : c \in CallsOf(clientHistory[i].parts)}

\* C3: while a submission pass awaits its continuation turn no other pass
\* starts and no second continuation turn is issued; at most one continuation
\* of a pass is open at any time, and a batch that arrives meanwhile waits.
C3_OnePassAtATime ==
    [][/\ PassInFlight =>
            /\ \A i \in 1..Len(batchLog') : ~PassStarted(i)
            /\ \A i \in 1..Len(clientHistory') :
                  i > Len(clientHistory) => clientHistory'[i].kind # "send"
       /\ Cardinality({t \in TurnIds : streams'[t].state = "open"
                                        /\ streams'[t].pass # <<>>}) <= 1]_vars

\* C3 witness: a batch arrived while a pass awaits its continuation turn.
C3_Witness == PassInFlight /\ pendingToolSubmission # <<>>

\* C4: a batch taken from the pending slot when the continuation of a pass has
\* finished is run through a submission pass when its deferred callback runs.
C4_QueuedBatchProcessed ==
    [][\A i \in 1..Len(batchLog) :
          batchLog[i].fate = "deferred"
              => batchLog'[i].fate \in {"deferred", "pass", "processed"}]_vars

\* C5: no settled batch is dropped: none is overwritten in the pending slot
\* and none is turned away by the entry guard.
C5_NoBatchDropped ==
    \A i \in 1..Len(batchLog) : batchLog[i].fate \notin {"replaced", "blocked"}

\* C6: the response of a tool call is carried by at most one entry of the
\* client history (one continuation turn or one addHistory), and once in it.
C6_ProcessedOnce ==
    \A c \in CallIds :
        /\ Cardinality(Carrying(c)) <= 1
        /\ \A i \in Carrying(c) :
              Cardinality({k \in 1..Len(clientHistory[i].parts) :
                              clientHistory[i].parts[k] = c}) = 1

\* C6 witness: two batches have been run through a pass, one of them after
\* waiting in the pending slot, and both were given to the client.
C6_Witness ==
    /\ \E i, j \in 1..Len(batchLog) :
          /\ i # j
          /\ batchLog[i].fate = "processed" /\ batchLog[j].fate = "processed"
    /\ Cardinality({c \in CallIds : Carrying(c) # {}}) >= 2

\* C9: when handleCompletedTools is called on a batch whose backend-targeted
\* calls are all cancelled, it issues no continuation turn, appends their
\* response parts to the client history as one entry and marks them submitted.
C9_AllCancelledBatch ==
    [][\A i \in 1..Len(batchLog') :
          LET batch == batchLog'[i].calls
              gemini == geminiTools(batch, toolCalls')
          IN (Handled(i) /\ gemini # <<>> /\ allToolsCancelled(batch, toolCalls'))
                => /\ nTurns' = nTurns
                   /\ clientHistory' = Append(clientHistory, AddHistory(gemini))
                   /\ \A c \in CallsOf(gemini) : toolCalls'[c].submitted]_vars

\* The calls in S end cancelled if they end, and no continuation turn carries
\* a response of theirs.
EndCancelled(S) ==
    \A c \in S :
        /\ IsTerminal(toolCalls[c].status) => toolCalls[c].status = "cancelled"
        /\ \A i \in Carrying(c) : clientHistory[i].kind # "send"

\* C10 as stated: the calls that were outstanding, none of them terminal, when
\* cancelOngoingRequest was called end cancelled and get no continuation turn.
C10_CancelCalled == EndCancelled(cancelLog.called)

\* C10: the calls that were outstanding, none of them terminal, when
\* cancelOngoingRequest was called in streaming state Responding with the turn
\* not yet cancelled end cancelled and get no continuation turn.
C10_CancelPassed == EndCancelled(cancelLog.passed)

\* C10 witness: a call that was outstanding when cancelOngoingRequest passed
\* its guards has ended cancelled and its batch has been handled.
C10_Witness ==
    \E c \in cancelLog.passed :
        toolCalls[c].status = "cancelled" /\ toolCalls[c].submitted

\* In the step taken submitQuery was called without the continuation option.
SubmitCalled ==
    /\ hostLog'.last # hostLog.last
    /\ hostLog'.last.op = "submitQuery"
    /\ hostLog'.last.input # "continuation"

\* The step taken called no backend, added no assistant entry to the
\* transcript and did not set the responding flag.
NothingForModel ==
    /\ clientHistory' = clientHistory
    /\ streams' = streams
    /\ isResponding' = isResponding
    /\ \A i \in 1..Len(history') :
          i > Len(history) => ~IsGeminiType(history'[i].type)

C12_SubmitWhileActiveNoOp ==
    [][(SubmitCalled /\ streamingState \in {"Responding", "WaitingForConfirmation"})
          => /\ UNCHANGED <<turnCancelled, abortController, aborted,
                            modelSwitchedFromQuotaError, pendingHistoryItem,
                            history, isResponding>>
             /\ UNCHANGED <<clientHistory, streams, toolCalls, nTurns>>]_vars

\* C12 witness: submitQuery was called while a tool call awaits approval.
C12_Witness ==
    /\ hostLog.last = CallNoted("submitQuery", nTurns, "blocked")
    /\ streamingState = "WaitingForConfirmation"

\* The 'Request cancelled.' notices of a transcript.
CancelNotices(hist) ==
    {i \in 1..Len(hist) : hist[i] = Info("Request cancelled.")}

\* C13: cancelOngoingRequest takes effect once for a turn: a step appends a
\* 'Request cancelled.' notice only if the flag was down, and then it raises
\* the flag and the signal, flushes the pending entry before the notice and
\* notifies onCancelSubmit once; a call while the flag is up changes nothing,
\* so no controller is notified of twice and there is one notice for each
\* notification.
C13_CancelIdempotent ==
    [][/\ CancelNotices(history') # CancelNotices(history)
            => /\ ~turnCancelled /\ turnCancelled'
               /\ abortController \in aborted'
               /\ pendingHistoryItem' = NoItem
               /\ history' = (IF pendingHistoryItem # NoItem
                              THEN Append(history, pendingHistoryItem)
                              ELSE history) \o <<Info("Request cancelled.")>>
               /\ hostLog'.onCancelSubmit =
                     Append(hostLog.onCancelSubmit, abortController)
       /\ Cardinality(CancelNotices(history')) = Len(hostLog'.onCancelSubmit)
       /\ \A i, j \in 1..Len(hostLog'.onCancelSubmit) :
             i # j => hostLog'.onCancelSubmit[i] # hostLog'.onCancelSubmit[j]]_vars

\* C13 witness: the turn was cancelled with a pending entry, its stream then
\* scheduled a tool call, and cancelOngoingRequest was called again with that
\* call outstanding: there is one notification and one notice.
C13_Witness ==
    /\ turnCancelled
    /\ streamingState = "Responding"
    /\ cancelLog.called # {} /\ cancelLog.passed = {}
    /\ Len(hostLog.onCancelSubmit) = 1
    /\ Cardinality(CancelNotices(history)) = 1
    /\ \E i \in 1..Len(history) : IsGeminiType(history[i].type)

\* A step that appends an error entry as the last entry of the transcript.
ErrorEntryAppended ==
    /\ Len(history') > Len(history)
    /\ history'[Len(history')].type = "error"

\* C14: a step that ends a turn with an error entry, for an Error event or for
\* a failure thrown by the streaming call, appends the pending entry, if one
\* is held, right before the error entry and holds no pending entry afterwards.
C14_PendingFlushedBeforeError ==
    [][ErrorEntryAppended
          => /\ pendingHistoryItem' = NoItem
             /\ history' = (IF pendingHistoryItem # NoItem
                            THEN Append(history, pendingHistoryItem)
                            ELSE history) \o <<ErrorItem("api error")>>]_vars

\* The streaming call of turn t throws a failure of the given kind in this step.
CallFails(t, kind) ==
    /\ streams[t].state = "open"
    /\ hostLog'.last = CallNoted("fail", t, kind)

\* The step sends nothing to the backend and leaves no stream of turn t open.
NotRetried(t) ==
    /\ clientHistory' = clientHistory
    /\ streams'[t].state = "failed"
    /\ \A u \in TurnIds \ {t} : streams'[u] = streams[u]

\* C15: when the streaming call of a turn fails with an authorization failure,
\* onAuthError is called once for the turn, the transcript gets no entry, the
\* backend is not called again and the responding flag is false.
C15_AuthFailureSignalled ==
    [][\A t \in TurnIds :
          CallFails(t, "unauthorized")
             => /\ hostLog'.onAuthError = Append(hostLog.onAuthError, t)
                /\ \A i \in 1..Len(hostLog.onAuthError) : hostLog.onAuthError[i] # t
                /\ history' = history
                /\ NotRetried(t)
                /\ ~isResponding']_vars

\* C15 witness: the calls of two turns have failed for authorization, the last
\* one just now; the transcript holds the two queries only.
C15_Witness ==
    /\ nTurns = 2
    /\ hostLog.last = CallNoted("fail", 2, "unauthorized")
    /\ hostLog.onAuthError = <<1, 2>>
    /\ history = <<UserItem("query"), UserItem("query")>>
    /\ ~isResponding

\* C16: a streaming call that fails with an abort error appends nothing to the
\* transcript; one that fails otherwise, and not for authorization, appends
\* exactly one error entry, leaves the responding flag false and is not
\* retried.
C16_AbortSilentOtherReported ==
    [][\A t \in TurnIds :
          /\ CallFails(t, "abort") => history' = history
          /\ CallFails(t, "other")
                => /\ history' = Append(history, ErrorItem("api error"))
                   /\ hostLog'.onAuthError = hostLog.onAuthError
                   /\ NotRetried(t)
                   /\ ~isResponding']_vars

\* C16 witness: the call of an earlier turn failed and left one error entry,
\* and the call of the cancelled last turn has just failed with an abort error.
C16_Witness ==
    /\ nTurns >= 2
    /\ hostLog.last = CallNoted("fail", nTurns, "abort")
    /\ turnCancelled
    /\ Cardinality({i \in 1..Len(history) : history[i].type = "error"}) = 1
    /\ history[Len(history)] = Info("Request cancelled.")

\* In the step taken, the Content event with value v was handed to
\* handleContentEvent in turn t.
ContentHandled(t, v) ==
    /\ delivery'.serial # delivery.serial
    /\ delivery'.turn = t
    /\ delivery'.event = Event("content", v)
    /\ delivery'.consumed

\* What remains in the buffer once the split of a changed buffer is taken.
AfterSplit(old, new) ==
    IF new = old \/ findLastSafeSplitPoint(new) = Len(new) THEN new
    ELSE SubSeq(new, findLastSafeSplitPoint(new) + 1, Len(new))

\* C17: in a turn that is not cancelled, a fragment handed to
\* handleContentEvent yields, before the split, the buffer unchanged when it
\* is empty, the fragment when the fragment starts with the buffer, and the
\* buffer followed by the fragment otherwise.
C17_FragmentApplied ==
    [][\A t \in TurnIds : \A v \in {delivery'.event.value} :
          (ContentHandled(t, v) /\ ~turnCancelled)
             => LET b == streams[t].buffer
                    applied == IF v = <<>> THEN b
                               ELSE IF Len(v) >= Len(b) /\ SubSeq(v, 1, Len(b)) = b
                                    THEN v
                                    ELSE b \o v
                IN streams'[t].buffer = AfterSplit(b, applied)]_vars

\* C17 witness: a delta was joined to a buffer it does not start with, a
\* snapshot that starts with the buffer replaced it, and an empty fragment
\* has just left the buffer as it was.
C17_Witness ==
    \E t \in TurnIds :
        /\ delivery.turn = t
        /\ delivery.event = Event("content", <<>>)
        /\ delivery.consumed
        /\ streams[t].snapshots
        /\ streams[t].state = "open"
        /\ Len(streams[t].buffer) >= 2

\* In the step taken, a Finished event with the given reason was handled in
\* turn t.
FinishedHandled(t, reason) ==
    /\ delivery'.serial # delivery.serial
    /\ delivery'.turn = t
    /\ delivery'.event = Event("finished", <<reason>>)
    /\ delivery'.consumed

\* Reasons that end a response without a notice.
SilentFinishReasons == {"STOP", "FINISH_REASON_UNSPECIFIED"}

\* What the claim expects of the transcript after a Finished event.
FinishedNotice(reason, before, after) ==
    IF reason \in SilentFinishReasons THEN after = before
    ELSE /\ Len(after) = Len(before) + 1
         /\ SubSeq(after, 1, Len(before)) = before
         /\ after[Len(after)].type = "info"

\* C18: a Finished event with reason STOP or FINISH_REASON_UNSPECIFIED appends
\* nothing to the transcript, one with any other reason appends exactly one
\* informational entry, and neither changes the content buffer, the pending
\* entry or the collected requests.  The events of the stream are checked in
\* the step that handles them; the handler is checked for every reason on the
\* state of every open turn.
C18_FinishedNotice ==
    [][/\ \A t \in TurnIds, reason \in AllFinishReasons :
             FinishedHandled(t, reason)
                => /\ FinishedNotice(reason, history, history')
                   /\ streams'[t].buffer = streams[t].buffer
                   /\ pendingHistoryItem' = pendingHistoryItem
                   /\ streams'[t].requests = streams[t].requests
       /\ \A t \in TurnIds, reason \in AllFinishReasons :
             streams[t].state = "open"
                => LET h == Hook(streams[t].buffer, streams[t].requests)
                       r == handleFinishedEvent(h, reason)
                   IN /\ FinishedNotice(reason, h.history, r.history)
                      /\ [r EXCEPT !.history = h.history] = h]_vars

\* C18 witness: with text pending and a request collected, a Finished event
\* with reason MAX_TOKENS has just appended its notice as the last entry.
C18_Witness ==
    \E t \in TurnIds :
        /\ delivery.turn = t
        /\ delivery.event = Event("finished", <<"MAX_TOKENS">>)
        /\ delivery.consumed
        /\ history[Len(history)] = Info(finishReasonMessages("MAX_TOKENS"))
        /\ IsGeminiType(pendingHistoryItem.type)
        /\ streams[t].requests # <<>>

\* C19: when the backend rejects the call of a stream for authorization, the
\* adapter fails with a value of another kind than it does for a generic API
\* failure, in each of its methods, and submitQuery takes its authorization
\* branch: onAuthError is called and no error entry is appended.
C19_AuthRejectionDistinct ==
    [][\A t \in TurnIds :
          CallFails(t, "AuthenticationError")
             => /\ \A method \in AdapterMethods :
                      adapterCatch(method, "AuthenticationError").class
                         # adapterCatch(method, "InternalServerError").class
                /\ hostLog'.onAuthError = Append(hostLog.onAuthError, t)
                /\ history' = history]_vars

\* C20: the submission lock is held only while a pass awaits its continuation
\* turn: a pass that ends without a continuation, for a batch with no call of
\* the model, a batch of cancelled calls or a suppressed continuation, leaves
\* the in-progress flag false, so that no later batch is queued behind it.
C20_LockReleased ==
    toolSubmissionInProgress => PassInFlight

\* In the step taken, a Content event was handed to handleContentEvent in
\* turn t, the turn was not cancelled and the fragment changed the buffer.
ContentApplied(t) ==
    /\ ContentHandled(t, delivery'.event.value)
    /\ ~turnCancelled
    /\ newGeminiMessageBuffer(delivery'.event.value, streams[t].buffer)
          # streams[t].buffer

\* The buffer of turn t before the split, for the event of the step taken.
NewBuffer(t) == newGeminiMessageBuffer(delivery'.event.value, streams[t].buffer)

\* The transcript once a pending entry that is no assistant entry is closed.
HistoryBeforeContent ==
    IF ~IsGeminiType(pendingHistoryItem.type) /\ pendingHistoryItem # NoItem
    THEN Append(history, pendingHistoryItem)
    ELSE history

\* C21: when a Content event is applied in a turn that is not cancelled and
\* the safe split point is the length of the new buffer, the text of the
\* pending entry is the new buffer after the event.
C21_PendingUpdatedInPlace ==
    [][\A t \in TurnIds :
          (ContentApplied(t)
              /\ findLastSafeSplitPoint(NewBuffer(t)) = Len(NewBuffer(t)))
             => pendingHistoryItem'.text = NewBuffer(t)]_vars

\* C22: when a Content event is applied in a turn that is not cancelled and
\* the safe split point is smaller than the length of the new buffer, the
\* text before the split point, when there is any, is appended to the
\* transcript as one closed entry, and the text after it is the text of the
\* pending entry and the buffer, whatever the pending entry held.
C22_SplitCommitsBeforeText ==
    [][\A t \in TurnIds :
          (ContentApplied(t)
              /\ findLastSafeSplitPoint(NewBuffer(t)) > 0
              /\ findLastSafeSplitPoint(NewBuffer(t)) < Len(NewBuffer(t)))
             => LET sp == findLastSafeSplitPoint(NewBuffer(t))
                    beforeText == SubSeq(NewBuffer(t), 1, sp)
                    afterText == SubSeq(NewBuffer(t), sp + 1, Len(NewBuffer(t)))
                IN /\ Len(history') = Len(HistoryBeforeContent) + 1
                   /\ SubSeq(history', 1, Len(HistoryBeforeContent))
                         = HistoryBeforeContent
                   /\ IsGeminiType(history'[Len(history')].type)
                   /\ history'[Len(history')].text = beforeText
                   /\ pendingHistoryItem'.text = afterText
                   /\ streams'[t].buffer = afterText]_vars

\* In the step taken, the stream of turn t was drained to its end.
StreamDrained(t) ==
    /\ streams[t].state = "open"
    /\ streams'[t].state = "done"

\* C23: when the stream of a turn is drained without failure and the turn was
\* not cancelled, a pending entry that is still held is appended to the
\* transcript and the pending slot is empty afterwards.
C23_PendingFlushedAtEnd ==
    [][\A t \in TurnIds :
          (StreamDrained(t) /\ ~turnCancelled)
             => /\ pendingHistoryItem' = NoItem
                /\ pendingHistoryItem # NoItem
                      => /\ Len(history') > Len(history)
                         /\ history'[Len(history) + 1] = pendingHistoryItem]_vars

Delivered(t, type) ==
    /\ delivery'.serial # delivery.serial
    /\ delivery'.turn = t
    /\ delivery'.event.type = type

\* C25: once the cancellation flag of a turn is raised, a Content event of its
\* stream changes neither the transcript nor the pending entry, and a Thought
\* event does not change the reasoning summary.
C25_SuppressedAfterCancel ==
    [][\A t \in TurnIds :
          /\ (turnCancelled /\ Delivered(t, "content"))
                => /\ history' = history
                   /\ pendingHistoryItem' = pendingHistoryItem
          /\ (turnCancelled /\ Delivered(t, "thought"))
                => thought' = thought]_vars

\* The pending entry as a UserCancelled event closes it.
ClosedOnCancel(item) ==
    [item EXCEPT !.tools = [i \in 1..Len(item.tools) |-> CancelTool(item.tools[i])]]

\* The stream of turn t has delivered a UserCancelled event and the
\* cancellation flag of the turn has not been raised.
UserCancelledSeen(t) ==
    /\ streams[t].state = "open"
    /\ Event("user_cancelled", <<>>) \in streams[t].delivered
    /\ ~turnCancelled

\* C26: a UserCancelled event in a turn that is not cancelled appends the
\* pending entry with its tools in flight marked cancelled, empties the
\* pending slot and appends one informational entry; after it no event of the
\* stream is handled and the requests collected from it are not scheduled.
C26_UserCancelledStops ==
    [][\A t \in TurnIds :
          /\ (Delivered(t, "user_cancelled") /\ delivery'.consumed /\ ~turnCancelled)
                => /\ history' =
                         (IF pendingHistoryItem # NoItem
                          THEN Append(history, ClosedOnCancel(pendingHistoryItem))
                          ELSE history) \o <<Info("User cancelled the request.")>>
                   /\ pendingHistoryItem' = NoItem
          /\ UserCancelledSeen(t)
                => /\ ~(delivery'.serial # delivery.serial /\ delivery'.turn = t
                          /\ delivery'.consumed)
                   /\ toolCalls' = toolCalls]_vars

\* The loop-detected notices of a transcript.
LoopNotices(hist) == {i \in 1..Len(hist) : hist[i] = Info("loop detected")}

\* C27: the loop-detected notice is appended only in the step that ends the
\* stream, as the last entry and after the pending entry, which is appended
\* right before it when one is held; no pending entry is held afterwards, so
\* that all content of the turn precedes the notice.
C27_LoopNoticeAfterContent ==
    [][LoopNotices(history') # LoopNotices(history)
          => /\ \E t \in TurnIds : StreamDrained(t)
             /\ pendingHistoryItem' = NoItem
             /\ history' = (IF pendingHistoryItem # NoItem
                            THEN Append(history, pendingHistoryItem)
                            ELSE history) \o <<Info("loop detected")>>]_vars

\* The position of the first arrival of call c in a sequence of arrivals.
FirstArrival(arrivals, c) ==
    CHOOSE i \in 1..Len(arrivals) :
        /\ arrivals[i] = c
        /\ \A k \in 1..(i - 1) : arrivals[k] # c

\* The list holds each call that arrived exactly once, in the order of the
\* first arrivals.
DistinctInArrivalOrder(requests, arrivals) ==
    /\ CallsOf(requests) = CallsOf(arrivals)
    /\ \A i, j \in 1..Len(requests) :
          i < j => /\ requests[i] # requests[j]
                   /\ FirstArrival(arrivals, requests[i])
                         < FirstArrival(arrivals, requests[j])

\* C28: scheduleToolCalls is called for a stream only in the step that ends
\* it, after the last event, and only if a request was collected; the list it
\* gets holds each distinct call identifier once, in order of first arrival,
\* and the calls are scheduled under the abort signal of the turn.
C28_ScheduledOnceAtEnd ==
    [][\A t \in TurnIds :
          /\ Delivered(t, delivery'.event.type) => toolCalls' = toolCalls
          /\ StreamDrained(t)
                => /\ DistinctInArrivalOrder(streams[t].requests, streams[t].arrivals)
                   /\ \A c \in CallIds :
                         IF c \in CallsOf(streams[t].arrivals)
                         THEN /\ toolCalls'[c].status = "scheduled"
                              /\ toolCalls'[c].signal = streams[t].signal
                              /\ streams[t].signal = t
                         ELSE toolCalls'[c] = toolCalls[c]]_vars

\* C28 witness: the stream of the first turn delivered the requests c1 and
\* c2, one of them twice, and has ended: both calls are scheduled under the
\* signal of the turn.
C28_Witness ==
    /\ streams[1].state = "done"
    /\ streams[1].redelivered
    /\ \A c \in {"c1", "c2"} :
          toolCalls[c].status = "scheduled" /\ toolCalls[c].signal = 1
    /\ toolCalls["c3"].status = "none"

\* The calls of a batch that are for the backend and terminal with a
\* populated response, in batch order.
Eligible(batch, calls) ==
    SelectSeq(batch, LAMBDA c : /\ calls[c].status \in {"success", "error", "cancelled"}
                                /\ calls[c].response
                                /\ ~calls[c].client)

\* In the step taken, the continuation turn of a pass on batch was issued.
ContinuationIssued(batch) ==
    /\ nTurns' = nTurns + 1
    /\ streams'[nTurns'].state = "open"
    /\ streams'[nTurns'].pass = batch
    /\ batch # <<>>

\* C29: a pass on a batch with a backend-targeted call that is not cancelled
\* issues, unless the quota flag suppresses it, one continuation turn; the
\* continuation carries the responses of exactly the backend-targeted calls
\* that are terminal with a populated response, in batch order, under the
\* prompt identifier of the first of them, and these calls are marked
\* submitted; a call without a populated response is neither sent nor marked.
C29_ContinuationCarriesResponses ==
    [][\A i \in 1..Len(batchLog') :
          LET batch == batchLog'[i].calls
              sent == Eligible(batch, toolCalls')
          IN /\ (/\ PassStarted(i)
                 /\ \E k \in 1..Len(sent) : toolCalls'[sent[k]].status # "cancelled"
                 /\ ~modelSwitchedFromQuotaError)
                   => ContinuationIssued(batch)
             /\ (Handled(i) /\ ContinuationIssued(batch))
                   => /\ sent # <<>>
                      /\ clientHistory' =
                            Append(clientHistory,
                                   Send(nTurns', sent, toolCalls'[sent[1]].promptId))
                      /\ \A c \in CallsOf(sent) : toolCalls'[c].submitted
                      /\ \A c \in CallsOf(batch) :
                            ~toolCalls'[c].response
                               => /\ toolCalls'[c].submitted = toolCalls[c].submitted
                                  /\ c \notin CallsOf(sent)]_vars

\* C29 witness: the continuation of a pass is open for a batch of two calls of
\* the backend, of which one ended in error without a response: the
\* continuation carries the response of the other alone.
C29_Witness ==
    \E t \in TurnIds :
        /\ streams[t].state = "open"
        /\ Len(streams[t].pass) = 2
        /\ clientHistory[Len(clientHistory)].kind = "send"
        /\ clientHistory[Len(clientHistory)].turn = t
        /\ Len(clientHistory[Len(clientHistory)].parts) = 1
        /\ \E c \in CallsOf(streams[t].pass) :
              /\ toolCalls[c].status = "error"
              /\ ~toolCalls[c].client
              /\ ~toolCalls[c].submitted

\* The client-initiated calls of a batch that are terminal with a populated
\* response, in batch order.
ClientReady(batch, calls) ==
    SelectSeq(batch, LAMBDA c : /\ calls[c].status \in {"success", "error", "cancelled"}
                                /\ calls[c].response
                                /\ calls[c].client)

C31_QuotaSuppressesContinuation ==
    [][/\ modelSwitchedFromQuotaError
            => \A i \in 1..Len(batchLog') :
                  Handled(i) => /\ ~ContinuationIssued(batchLog'[i].calls)
                                /\ \A k \in 1..Len(clientHistory') :
                                      k > Len(clientHistory)
                                         => clientHistory'[k].kind # "send"
       /\ (modelSwitchedFromQuotaError /\ ~modelSwitchedFromQuotaError')
            => /\ hostLog'.last.op = "submitQuery"
               /\ hostLog'.last.input # "continuation"
               /\ hostLog'.last.turn = nTurns'
               /\ nTurns' = nTurns + 1]_vars

\* C31 witness: with the quota flag set, a pass ran on a batch with a
\* successful call of the backend: the call is marked submitted and nothing
\* that carries its response was given to the backend.
C31_Witness ==
    /\ modelSwitchedFromQuotaError
    /\ \E i \in 1..Len(batchLog) : \E c \in CallsOf(batchLog[i].calls) :
          /\ batchLog[i].fate = "processed"
          /\ toolCalls[c].status = "success"
          /\ ~toolCalls[c].client
          /\ toolCalls[c].submitted
          /\ Carrying(c) = {}

\* ------------------------------------------------ C32: return to Idle
\* The timers of the hook fire, a stream that is open ends, and the
\* tool-execution collaborator settles the calls it holds: setTimeout
\* callbacks are run by the event loop, the backend closes its stream, and
\* a tool that runs returns.
ToolFairness ==
    /\ WF_vars(\E batch \in timers : TimerFires(batch))
    /\ WF_vars(\E t \in TurnIds : StreamEnd(t))
    /\ WF_vars(\E S \in SUBSET CallIds : \E outcome \in [S -> Outcomes] :
                  Settle(S, outcome))

\* ToolSpec with an environment that makes progress.
ToolLiveSpec == ToolSpec /\ ToolFairness

\* No stream is open and every tool call of the registry is terminal.
TurnSettled ==
    /\ nTurns > 0
    /\ \A t \in 1..nTurns : streams[t].state # "open"
    /\ \E c \in CallIds : toolCalls[c].status # "none"
    /\ \A c \in CallIds :
          toolCalls[c].status # "none" => IsTerminal(toolCalls[c].status)

\* C32: once the stream of a turn has ended and every tool call has reached a
\* terminal state, the streaming state eventually returns to Idle, for every
\* order in which the settlement batches arrive (unless the turns of the
\* behaviour are used up first).
C32_EventuallyIdle ==
    (TurnSettled /\ nTurns < MaxTurns)
       ~> (streamingState = "Idle" \/ nTurns = MaxTurns)

\* ------------------------------------- C33: no continuation after a cancel
\* The step starts a continuation turn.
ContinuationStarts ==
    /\ nTurns' = nTurns + 1
    /\ streams'[nTurns'].state = "open"
    /\ streams'[nTurns'].cont

\* The step is a query of the user that starts a turn.
UserQueryStarts ==
    /\ nTurns' = nTurns + 1
    /\ hostLog'.last.op = "submitQuery"
    /\ hostLog'.last.turn = nTurns'
    /\ hostLog'.last.input # "continuation"

\* C33: after cancelOngoingRequest has cancelled a turn, no continuation turn
\* is sent to the backend, also for a batch that mixes completed and cancelled
\* calls, and the cancellation flag stays set until the next query of the
\* user.
C33_NoContinuationAfterCancel ==
    [][turnCancelled => /\ ~ContinuationStarts
                        /\ ~turnCancelled' => UserQueryStarts]_vars

\* ---------------------------------------------------- specification LoopSpec
\* The user submits queries in several turns and cancels; the backend streams
\* LoopDetected events only, and a stream ends or fails.
LoopNext ==
    \/ UserSubmit
    \/ \E t \in TurnIds : LoopDetectedEvent(t)
    \/ \E t \in TurnIds : StreamEnd(t)
    \/ \E t \in TurnIds, kind \in FailureKinds : StreamFail(t, kind)
    \/ cancelOngoingRequest

LoopSpec == Init /\ [][LoopNext]_vars

\* C34: the loop-detected notice is appended in a turn only if a LoopDetected
\* event was received in the stream of that same turn: the deferred flag does
\* not survive into a later turn, also when the stream fails or is aborted
\* after the flag was recorded.
C34_LoopNoticeOfSameTurn ==
    [][LoopNotices(history') # LoopNotices(history)
          => \E t \in TurnIds :
                /\ StreamDrained(t)
                /\ Event("loop_detected", <<>>) \in streams[t].delivered]_vars

\* -------------------------------------------------- specification CancelSpec
\* The backend streams ToolCallRequest and UserCancelled events, the
\* tool-execution collaborator settles the calls in batches, and the user
\* cancels.
CancelNext ==
    \/ FirstSubmit
    \/ \E t \in TurnIds, c \in CallIds : ToolCallRequestArrives(t, c)
    \/ \E t \in TurnIds : UserCancelledEvent(t)
    \/ \E t \in TurnIds : StreamEnd(t)
    \/ cancelOngoingRequest
    \/ \E S \in SUBSET CallIds : \E outcome \in [S -> Outcomes] : Settle(S, outcome)
    \/ \E batch \in timers : TimerFires(batch)

CancelSpec == Init /\ [][CancelNext]_vars

\* The cancellation notices of either kind in the transcript after position
\* start.
CancellationNotices(hist, start) ==
    {i \in (start + 1)..Len(hist) :
        hist[i] \in {Info("Request cancelled."), Info("User cancelled the request.")}}

\* cancelOngoingRequest took effect in turn t and the stream of turn t, still
\* open, has delivered a UserCancelled event.
BothCancelled(t) ==
    /\ streams[t].state = "open"
    /\ Event("user_cancelled", <<>>) \in streams[t].delivered
    /\ \E i \in 1..Len(hostLog.onCancelSubmit) : hostLog.onCancelSubmit[i] = t

\* C35: when cancelOngoingRequest and a UserCancelled stream event both occur
\* in the same turn, in either order, the transcript of the turn holds one
\* cancellation notice only.
C35_OneCancellationNotice ==
    \A t \in TurnIds :
       BothCancelled(t)
          => Cardinality(CancellationNotices(history, streams[t].start)) <= 1

\* ------------------------------------------------------------- checkpoints
\* Runs of the checkpoint effect in one behaviour of CheckpointSpec.
MaxRuns == 2

\* The requests the backend makes under CheckpointSpec.
Requests ==
    {Request("replace", TRUE), Request("write_file", TRUE),
     Request("write_file", FALSE), Request("read_file", TRUE)}

\* What a run of the effect meets: whether checkpointing is enabled, whether
\* there is a checkpoint directory, how fs.mkdir ends and whether there is a
\* git service.
RunEnv(enabled, dir, mkdir, git) ==
    [enabled |-> enabled, dir |-> dir, mkdir |-> mkdir, git |-> git]

RunEnvs ==
    {RunEnv(FALSE, TRUE, "ok", TRUE), RunEnv(TRUE, FALSE, "ok", TRUE),
     RunEnv(TRUE, TRUE, "error", TRUE)}
    \cup {RunEnv(TRUE, TRUE, m, g) : m \in {"ok", "EEXIST"}, g \in BOOLEAN}

\* What the versioning collaborator and the file system do for one call:
\* createFileSnapshot and getCurrentCommitHash return a hash, return undefined
\* or throw, and writing the record (getHistory, fs.writeFile) succeeds or
\* throws.  A step the run does not reach is "unused".
CallEnv(snapshot, current, write) ==
    [snapshot |-> snapshot, current |-> current, write |-> write]

CallEnvs ==
    {CallEnv("hash", "unused", w) : w \in {"ok", "throws"}}
    \cup {CallEnv(s, "hash", w) : s \in {"throws", "undefined"},
                                  w \in {"ok", "throws"}}
    \cup {CallEnv(s, c, "unused") : s \in {"throws", "undefined"},
                                    c \in {"throws", "undefined"}}

\* The calls the effect records: calls of replace or write_file that are
\* awaiting approval, in the order of the registry.
restorableToolCalls(calls) ==
    InOrder({c \in CallIds : /\ requestOf[c].name \in {"replace", "write_file"}
                             /\ calls[c].status = "awaiting_approval"})

DebugMessage(c, text) == [call |-> c, text |-> text]

CheckpointRecord(c, commitHash) == [call |-> c, commitHash |-> commitHash]

\* The body of the loop for one call: the records written and the debug
\* messages reported.
checkpointToolCall(c, git, o) ==
    LET failed == IF o.snapshot = "throws"
                  THEN <<DebugMessage(c, "Failed to create new snapshot")>>
                  ELSE <<>>
        commitHash == IF o.snapshot = "hash" THEN "snapshot"
                      ELSE IF o.current = "hash" THEN "current"
                      ELSE "none"
    IN
    IF ~requestOf[c].filePath
    THEN [records |-> <<>>,
          messages |-> <<DebugMessage(c, "missing file_path")>>]
    ELSE IF ~git
    THEN [records |-> <<>>,
          messages |-> <<DebugMessage(c, "Git service is not available")>>]
    ELSE IF o.snapshot # "hash" /\ o.current = "throws"
    THEN [records |-> <<>>,
          messages |-> failed \o <<DebugMessage(c, "Failed to create checkpoint")>>]
    ELSE IF commitHash = "none"
    THEN [records |-> <<>>,
          messages |-> failed \o <<DebugMessage(c, "Failed to create snapshot")>>]
    ELSE IF o.write = "throws"
    THEN [records |-> <<>>,
          messages |-> failed \o <<DebugMessage(c, "Failed to create checkpoint")>>]
    ELSE [records |-> <<CheckpointRecord(c, commitHash)>>,
          messages |-> failed]

\* A variant in which the loop ends at the first call that is not recorded.
AfterToolCallReturn(done, rest) == IF done.records = <<>> THEN <<>> ELSE rest

\* The calls the loop goes on with after one call: a continue, or the end of
\* the loop body, leads to the next call.
AfterToolCall(done, rest) == rest

RECURSIVE checkpointLoop(_, _, _)
checkpointLoop(calls, git, outcome) ==
    IF calls = <<>> THEN [records |-> <<>>, messages |-> <<>>]
    ELSE LET done == checkpointToolCall(calls[1], git, outcome[calls[1]])
             rest == checkpointLoop(AfterToolCall(done, Tail(calls)), git, outcome)
         IN [records |-> done.records \o rest.records,
             messages |-> done.messages \o rest.messages]

\* One run of the effect saveRestorableToolCalls, which React starts after a
\* render in which one of its dependencies has changed.
saveRestorableToolCalls(env, outcome) ==
    LET calls == restorableToolCalls(toolCalls)
        enters == /\ env.enabled
                  /\ calls # <<>>
                  /\ env.dir
                  /\ env.mkdir \in {"ok", "EEXIST"}
        loop == checkpointLoop(calls, env.git, outcome)
    IN
    /\ nRuns < MaxRuns
    /\ effectDeps # <<toolCalls, history>>
    /\ DOMAIN outcome = CallsOf(calls)
    /\ nRuns' = nRuns + 1
    /\ effectDeps' = <<toolCalls, history>>
    /\ checkpointFiles' = IF enters THEN checkpointFiles \o loop.records
                          ELSE checkpointFiles
    /\ lastRun' =
          [calls |-> IF env.enabled THEN calls ELSE <<>>,
           entered |-> enters,
           git |-> env.git,
           outcome |-> [c \in CallIds |->
                           IF enters /\ c \in DOMAIN outcome
                           THEN outcome[c] ELSE "none"],
           records |-> IF enters THEN loop.records ELSE <<>>,
           messages |->
              IF enters THEN loop.messages
              ELSE IF env.enabled /\ calls # <<>> /\ env.dir
              THEN <<DebugMessage("none", "Failed to create checkpoint directory")>>
              ELSE <<>>,
           rejected |-> FALSE]
    /\ UNCHANGED <<hookVars, toolVars, streams, clientHistory, delivery, cancelLog,
                   hostLog, nEvents, nTurns, requestOf, adapterVars, authVars>>

\* ---------------------------------------------- specification CheckpointSpec
\* The backend requests tool calls of several tools, with and without a
\* file_path; the calls come to await approval, and the checkpoint effect runs
\* after the renders.
\* The calls the backend requests in one behaviour of CheckpointSpec.
CheckpointCalls == {"c1", "c2"}

CheckpointInit ==
    /\ InitHook
    /\ requestOf \in {r \in [CallIds -> Requests] :
                         \A c \in CallIds \ CheckpointCalls :
                            r[c] = Request("replace", TRUE)}
    /\ processEnv = [n \in EnvNames |-> Unset]

CheckpointNext ==
    \/ FirstSubmit
    \/ \E t \in TurnIds, c \in CheckpointCalls : ToolCallRequestArrives(t, c)
    \/ \E t \in TurnIds : StreamEnd(t)
    \/ \E c \in CallIds : ToolAdvance(c, "awaiting_approval")
    \/ \E env \in RunEnvs :
          \E outcome \in [CallsOf(restorableToolCalls(toolCalls)) -> CallEnvs] :
             saveRestorableToolCalls(env, outcome)

CheckpointSpec == CheckpointInit /\ [][CheckpointNext]_vars

\* The messages that report that call c was skipped.
SkipMessages(c) ==
    {DebugMessage(c, text) :
        text \in {"missing file_path", "Git service is not available",
                  "Failed to create snapshot", "Failed to create checkpoint"}}

\* The positions of the records of call c in a sequence of records.
RecordsOf(files, c) == {i \in 1..Len(files) : files[i].call = c}

\* The run noted in run skipped call c with a debug message.
Skipped(run, c) ==
    /\ RecordsOf(run.records, c) = {}
    /\ \E i \in 1..Len(run.messages) : run.messages[i] \in SkipMessages(c)

\* The run noted in run wrote one record for call c, with this identifier.
Recorded(run, c, commitHash) ==
    /\ Cardinality(RecordsOf(run.records, c)) = 1
    /\ \A i \in RecordsOf(run.records, c) : run.records[i].commitHash = commitHash
    /\ \A i \in 1..Len(run.messages) : run.messages[i] \notin SkipMessages(c)

\* C36: a checkpoint failure is confined to one tool call.  In a run that has
\* reached its loop, a call whose snapshot fails is recorded with the
\* current-state identifier, a call with neither identifier or whose record
\* cannot be written is skipped with a debug message, every restorable call of
\* the run is either recorded or skipped with a message whatever became of the
\* others, and no failure reaches the turn or the tool calls.
C36_CheckpointFailureConfined ==
    [][(nRuns' = nRuns + 1 /\ lastRun'.entered)
          => /\ lastRun'.calls = restorableToolCalls(toolCalls)
             /\ \A c \in CallsOf(lastRun'.calls) :
                   LET o == lastRun'.outcome[c]
                       able == requestOf[c].filePath /\ lastRun'.git
                   IN /\ Skipped(lastRun', c)
                         \/ \E h \in {"snapshot", "current"} : Recorded(lastRun', c, h)
                      /\ (able /\ o.snapshot = "hash" /\ o.write = "ok")
                            => Recorded(lastRun', c, "snapshot")
                      /\ (able /\ o.snapshot # "hash" /\ o.current = "hash"
                            /\ o.write = "ok")
                            => Recorded(lastRun', c, "current")
                      /\ (able /\ o.snapshot # "hash" /\ o.current # "hash")
                            => Skipped(lastRun', c)
                      /\ (able /\ o.write = "throws") => Skipped(lastRun', c)
                      /\ ~able => Skipped(lastRun', c)
             /\ checkpointFiles' = checkpointFiles \o lastRun'.records
             /\ ~lastRun'.rejected
             /\ UNCHANGED <<hookVars, toolVars, streams>>]_vars

\* A run in which the first restorable call could not be written and the
\* second one was recorded from the current-state identifier.
C36_Witness ==
    /\ lastRun.entered
    /\ Len(lastRun.calls) = 2
    /\ lastRun.outcome[lastRun.calls[1]].write = "throws"
    /\ Skipped(lastRun, lastRun.calls[1])
    /\ lastRun.outcome[lastRun.calls[2]].snapshot = "throws"
    /\ Recorded(lastRun, lastRun.calls[2], "current")

\* C37: one checkpoint record at most is persisted per tool call, also when
\* the registry, the transcript or another dependency changes while the call
\* is still awaiting approval, and only calls of replace or write_file that
\* have come to await approval are recorded.
C37_OneRecordPerCall ==
    \A c \in CallIds :
       /\ Cardinality(RecordsOf(checkpointFiles, c)) <= 1
       /\ RecordsOf(checkpointFiles, c) # {}
             => /\ requestOf[c].name \in {"replace", "write_file"}
                /\ toolCalls[c].status = "awaiting_approval"

\* -------------------------------------------------- OpenAIContentGenerator
\* Chunks of one stream in one behaviour of AdapterSpec.
MaxChunks == 3

HookUntouched ==
    UNCHANGED <<hookVars, toolVars, streams, clientHistory, delivery, cancelLog,
                hostLog, nEvents, nTurns, checkpointVars, authVars>>

\* The import of initializeOpenAI resolves and the client is built.
initializeOpenAI ==
    /\ openai = "pending"
    /\ openai' = "ready"
    /\ UNCHANGED <<generation, adapterCall>>
    /\ HookUntouched

\* The import of initializeOpenAI fails: this.openai stays undefined.
initializeOpenAIFails ==
    /\ openai = "pending"
    /\ openai' = "failed"
    /\ UNCHANGED <<generation, adapterCall>>
    /\ HookUntouched

\* The check of this.openai at the head of generateContent,
\* generateContentStream and embedContent.
ClientCheck(method) ==
    IF openai # "ready"
    THEN AdapterCalled(method, "OpenAI client is not initialized.")
    ELSE AdapterCalled(method, "called")

\* generateContent or embedContent is called.
AdapterRequest(method) ==
    /\ method \in {"generateContent", "embedContent"}
    /\ adapterCall' = ClientCheck(method)
    /\ UNCHANGED <<openai, generation>>
    /\ HookUntouched

\* generateContentStream is called; its generator starts with empty locals.
generateContentStream ==
    /\ generation.state # "open"
    /\ adapterCall' = ClientCheck("generateContentStream")
    /\ generation' = IF adapterCall'.result = "called"
                     THEN [NoGeneration EXCEPT !.state = "open"]
                     ELSE generation
    /\ UNCHANGED openai
    /\ HookUntouched

\* A chunk of the stream of the API: a content delta (<<>> when the chunk has
\* none), a delta of the first tool call (its name and a piece of its
\* arguments) or none, and whether the chunk has a finish_reason.
NoToolDelta == [name |-> <<>>, arguments |-> <<>>, present |-> FALSE]

ToolDeltas ==
    {NoToolDelta,
     [name |-> <<"f">>, arguments |-> <<"{">>, present |-> TRUE],
     [name |-> <<>>, arguments |-> <<"}">>, present |-> TRUE]}

ContentDeltas == {<<>>, <<"a">>, <<"b">>}

\* JSON.parse of the accumulated arguments of a tool call succeeds.
ParsesAsJSON(arguments) == arguments = <<"{", "}">>

\* The function calls that createStreamingResponse makes parts of.
FunctionCallParts(calls) ==
    SelectSeq(calls, LAMBDA tc : /\ tc.name # <<>>
                                 /\ tc.arguments # <<>>
                                 /\ ParsesAsJSON(tc.arguments))

createStreamingResponse(content, isComplete, calls) ==
    [text |-> content,
     functionCalls |-> [i \in 1..Len(FunctionCallParts(calls)) |->
                           FunctionCallParts(calls)[i].name],
     finishReason |-> IF isComplete THEN "STOP" ELSE "none"]

\* The body of the for-await loop of the generator for one chunk.
StreamChunk(content, tool, finish) ==
    LET g == generation
        accumulated == g.accumulatedContent \o content
        newContent == SubSeq(accumulated, g.previousContentLength + 1,
                             Len(accumulated))
        yieldsDelta == content # <<>> /\ newContent # <<>>
        calls == IF ~tool.present THEN g.accumulatedToolCalls
                 ELSE IF g.accumulatedToolCalls = <<>>
                 THEN <<[name |-> tool.name, arguments |-> tool.arguments]>>
                 ELSE <<[name |-> g.accumulatedToolCalls[1].name \o tool.name,
                         arguments |-> g.accumulatedToolCalls[1].arguments
                                          \o tool.arguments]>>
        yieldsFinal == finish /\ calls # <<>>
    IN
    /\ g.state = "open"
    /\ g.chunks < MaxChunks
    /\ generation' =
          [g EXCEPT
             !.chunks = @ + 1,
             !.received = @ \o content,
             !.accumulatedContent = accumulated,
             !.previousContentLength = IF yieldsDelta THEN Len(accumulated) ELSE @,
             !.accumulatedToolCalls = calls,
             !.yielded =
                 @ \o (IF yieldsDelta
                       THEN <<createStreamingResponse(newContent, FALSE, <<>>)>>
                       ELSE <<>>)
                   \o (IF yieldsFinal
                       THEN <<createStreamingResponse(accumulated, TRUE, calls)>>
                       ELSE <<>>)]
    /\ UNCHANGED <<openai, adapterCall>>
    /\ HookUntouched

\* The stream of the API ends and the generator returns.
StreamCloses ==
    /\ generation.state = "open"
    /\ generation' = [generation EXCEPT !.state = "done"]
    /\ UNCHANGED <<openai, adapterCall>>
    /\ HookUntouched

\* --------------------------------------------------- specification AdapterSpec
\* The methods of an OpenAIContentGenerator are called at any time after its
\* constructor has returned, and the API streams chunks.
AdapterNext ==
    \/ initializeOpenAI
    \/ initializeOpenAIFails
    \/ \E method \in {"generateContent", "embedContent"} : AdapterRequest(method)
    \/ generateContentStream
    \/ \E content \in ContentDeltas, tool \in ToolDeltas, finish \in BOOLEAN :
          StreamChunk(content, tool, finish)
    \/ StreamCloses

AdapterSpec == Init /\ [][AdapterNext]_vars

RECURSIVE YieldedText(_)
YieldedText(responses) ==
    IF responses = <<>> THEN <<>>
    ELSE responses[1].text \o YieldedText(Tail(responses))

\* C38: every character of model text is yielded once: the text parts of the
\* responses yielded so far, joined in order, are the content deltas received
\* so far, joined in order, also when the stream finishes with tool calls.
C38_TextYieldedOnce == YieldedText(generation.yielded) = generation.received

\* C39: a call of generateContent, generateContentStream or embedContent made
\* after the constructor has returned does not fail with 'OpenAI client is not
\* initialized.' while the initialization that the constructor started is
\* pending.
C39_ClientInitialized ==
    [][(adapterCall' # adapterCall
          /\ adapterCall'.result = "OpenAI client is not initialized.")
          => openai # "pending"]_vars

\* ------------------------------------------------------ validateAuthMethod
\* The members of AuthType, and a string that is none of them.
AuthMethods ==
    {"LOGIN_WITH_GOOGLE", "CLOUD_SHELL", "LOGIN_WITH_GOOGLE_GCA", "USE_GEMINI",
     "USE_VERTEX_AI", "USE_OPENAI", "something-else"}

\* The values of a variable of the environment: none, the empty string, a
\* key.
EnvValues == {Unset, "", "key"}

\* What the user types at the prompt for the OpenAI key.
Answers == {"", "typed-key"}

\* The values a variable of the environment has in a behaviour.
KeyValues == EnvValues \cup Answers

\* A variant of the test of a variable in which the empty string counts.
TruthyDefined(v) == v # Unset

\* !!process.env[name]: undefined and the empty string are falsy.
Truthy(v) == v # Unset /\ v # ""

GcaError == "[Error] GOOGLE_CLOUD_PROJECT is not set."
GeminiError == "GEMINI_API_KEY environment variable not found."
VertexError == "When using Vertex AI, you must specify either: ..."
OpenAIError == "OPENAI_API_KEY not provided."
InvalidError == "Invalid auth method selected."

\* validateAuthMethod as a function of the method, of process.env and of what
\* the user answers when prompted: the result, whether the prompt was shown,
\* and process.env afterwards.
validateAuthMethodOf(method, env, answer) ==
    LET done(result) == [result |-> result, prompted |-> FALSE, env |-> env]
    IN
    IF method \in {"LOGIN_WITH_GOOGLE", "CLOUD_SHELL"} THEN done("null")
    ELSE IF method = "LOGIN_WITH_GOOGLE_GCA"
    THEN IF ~Truthy(env["GOOGLE_CLOUD_PROJECT"]) THEN done(GcaError)
         ELSE done("null")
    ELSE IF method = "USE_GEMINI"
    THEN IF ~Truthy(env["GEMINI_API_KEY"]) THEN done(GeminiError)
         ELSE done("null")
    ELSE IF method = "USE_VERTEX_AI"
    THEN LET hasVertexProjectLocationConfig ==
                 /\ Truthy(env["GOOGLE_CLOUD_PROJECT"])
                 /\ Truthy(env["GOOGLE_CLOUD_LOCATION"])
             hasGoogleApiKey == Truthy(env["GOOGLE_API_KEY"])
         IN IF ~hasVertexProjectLocationConfig /\ ~hasGoogleApiKey
            THEN done(VertexError)
            ELSE done("null")
    ELSE IF method = "USE_OPENAI"
    THEN IF ~Truthy(env["OPENAI_API_KEY"])
         THEN IF answer = ""
              THEN [result |-> OpenAIError, prompted |-> TRUE, env |-> env]
              ELSE [result |-> "null", prompted |-> TRUE,
                    env |-> [env EXCEPT !["OPENAI_API_KEY"] = answer]]
         ELSE done("null")
    ELSE done(InvalidError)

\* A call of validateAuthMethod.
validateAuthMethod(method, answer) ==
    LET r == validateAuthMethodOf(method, processEnv, answer)
    IN
    /\ authCall' = AuthCalled(method, answer, r.prompted, r.result)
    /\ processEnv' = r.env
    /\ UNCHANGED <<hookVars, toolVars, streams, clientHistory, delivery, cancelLog,
                   hostLog, nEvents, nTurns, checkpointVars, adapterVars>>

\* ------------------------------------------------------ specification AuthSpec
\* validateAuthMethod is called, any number of times, with every method and in
\* every environment.
AuthInit ==
    /\ InitHook
    /\ requestOf = [c \in CallIds |-> Request("replace", TRUE)]
    /\ processEnv \in [EnvNames -> EnvValues]

AuthNext == \E method \in AuthMethods, answer \in Answers :
               validateAuthMethod(method, answer)

AuthSpec == AuthInit /\ [][AuthNext]_vars

\* The cases in which the method is valid, for a set of values that count as
\* set, in the environment env and with the answer of the user, who is asked
\* only for the OpenAI key when it is not set.
ValidCase(method, env, answer, setValues) ==
    \/ method \in {"LOGIN_WITH_GOOGLE", "CLOUD_SHELL"}
    \/ method = "LOGIN_WITH_GOOGLE_GCA" /\ env["GOOGLE_CLOUD_PROJECT"] \in setValues
    \/ method = "USE_GEMINI" /\ env["GEMINI_API_KEY"] \in setValues
    \/ /\ method = "USE_VERTEX_AI"
       /\ \/ /\ env["GOOGLE_CLOUD_PROJECT"] \in setValues
             /\ env["GOOGLE_CLOUD_LOCATION"] \in setValues
          \/ env["GOOGLE_API_KEY"] \in setValues
    \/ /\ method = "USE_OPENAI"
       /\ env["OPENAI_API_KEY"] \in setValues \/ answer # ""

\* A step is a call that returns null in the valid cases and a message in all
\* others, that prompts for the OpenAI key only when it is not set and stores
\* a key that was typed, and that answers an unknown method with 'Invalid
\* auth method selected.'.
ValidatesAs(setValues) ==
    \A method \in AuthMethods :
       (authCall' # authCall /\ authCall'.method = method)
          => /\ authCall'.result = "null"
                   <=> ValidCase(method, processEnv, authCall'.answer, setValues)
             /\ (authCall'.prompted /\ authCall'.answer # "")
                   => processEnv' = [processEnv EXCEPT
                                       !["OPENAI_API_KEY"] = authCall'.answer]
             /\ authCall'.prompted
                   <=> (method = "USE_OPENAI"
                          /\ processEnv["OPENAI_API_KEY"] \notin setValues)
             /\ ~authCall'.prompted => processEnv' = processEnv
             /\ method \notin (AuthMethods \ {"something-else"})
                   => authCall'.result = InvalidError
             /\ authCall'.result # "null"
                   => authCall'.result \in {GcaError, GeminiError, VertexError,
                                            OpenAIError, InvalidError}

\* C40 as stated: a variable counts as set when it is in the environment,
\* whatever its value.
C40_ValidWhenSet == [][ValidatesAs(KeyValues \ {Unset})]_vars

\* C40: validateAuthMethod returns null in the listed cases and an error
\* message in all others, where a variable counts as set when its value is
\* not the empty string; a key typed at the prompt is stored, so that a later
\* call returns null without a prompt.
C40_ValidWhenNonEmpty ==
    [][/\ ValidatesAs(KeyValues \ {Unset, ""})
       /\ (authCall.method = "USE_OPENAI" /\ authCall.result = "null"
             /\ authCall'.method = "USE_OPENAI")
             => authCall'.result = "null" /\ ~authCall'.prompted]_vars

\* A key typed at the prompt has been stored.
C40_Witness ==
    /\ authCall.method = "USE_OPENAI"
    /\ authCall.prompted
    /\ authCall.result = "null"
    /\ processEnv["OPENAI_API_KEY"] = "typed-key"
====
